---- MODULE Spec2Model ----
(***************************************************************************)
(* Model of the support-chat backend (backend/app): the knowledge-base     *)
(* matcher, the response generators and normalizers, and the chat-turn     *)
(* handlers that tie them to the persisted session state.                  *)
(*                                                                         *)
(* Python strings are sequences of one-character strings; "\n" is the      *)
(* newline and the token "BULLET" stands for the character U+2022.         *)
(* Python floats that take part in arithmetic (match scores) are IEEE-754  *)
(* doubles, kept exactly as an integer count of 2^-56 split in two limbs.  *)
(***************************************************************************)
EXTENDS Integers, Sequences, FiniteSets, TLC

VARIABLES
  \* one call of the matcher
  m_query, m_catalog, m_limit, m_result, m_pc,
  \* one call of a response generator
  g_prompt, g_kb, g_gen, g_handler, g_path, g_response,
  \* the servers: startup done, API key set, the tables knowledge_base,
  \* chat_sessions (row k has session id k) and chat_messages (per session, in
  \* timestamp order), and the last request with its response
  started, api_configured, knowledge_base, chat_sessions, chat_messages, last,
  \* one server process: the app it runs, the requests it has received with
  \* the position of their handlers, and the request whose handler holds the
  \* event loop (0 when none does)
  server, requests, running,
  \* one call of the prompt builder
  b_prompt, b_context, b_result, b_pc,
  \* the incidents table, the local date and the last answer of create_incident
  incidents, today, i_calls, i_last

m_vars == <<m_query, m_catalog, m_limit, m_result, m_pc>>
g_vars == <<g_prompt, g_kb, g_gen, g_handler, g_path, g_response>>
s_vars == <<started, api_configured, knowledge_base, chat_sessions, chat_messages, last>>
r_vars == <<server, requests, running>>
b_vars == <<b_prompt, b_context, b_result, b_pc>>
i_vars == <<incidents, today, i_calls, i_last>>
vars == <<m_vars, g_vars, s_vars, r_vars, b_vars, i_vars>>

(***************************************************************************)
(* Bounds of the model                                                     *)
(***************************************************************************)
MaxCatalog == 3
MaxLimit == 3

\* limit: int = 3 of find_matching_kb_entries
DefaultLimit == 3

\* sessions created, and rows of chat_messages per session
MaxSessions == 1
MaxMessages == 3

\* requests sent to one server process
MaxTurns == 2

\* limit: int = 10 of _get_conversation_history
HistoryLimit == 10

\* messages of a conversation handed to the prompt builder
MaxHistory == 9

\* context['conversation_history'][-8:] and context['kb_entries'][:3]
PromptHistoryLimit == 8
KbPromptLimit == 3

\* calls of create_incident in a run, and local dates
MaxCalls == 4
MaxDays == 2

\* f"{new_num:03d}" and incident_id[11:14]
SeqWidth == 3
SeqStart == 11
SeqStop == 14

(***************************************************************************)
(* Python str primitives                                                   *)
(***************************************************************************)
UpperLetters == <<"A","B","C","D","E","F","G","H","I","J","K","L","M","N","O","P","Q","R","S","T","U","V","W","X","Y","Z">>
LowerLetters == <<"a","b","c","d","e","f","g","h","i","j","k","l","m","n","o","p","q","r","s","t","u","v","w","x","y","z">>
Digits == {"0","1","2","3","4","5","6","7","8","9"}
UpperSet == {UpperLetters[i] : i \in 1..26}
LowerSet == {LowerLetters[i] : i \in 1..26}
Whitespace == {" ", "\n", "\t", "\r"}

LowerMap == [c \in UpperSet |-> LowerLetters[CHOOSE i \in 1..26 : UpperLetters[i] = c]]
UpperMap == [c \in LowerSet |-> UpperLetters[CHOOSE i \in 1..26 : LowerLetters[i] = c]]

lower_char(c) == IF c \in UpperSet THEN LowerMap[c] ELSE c
upper_char(c) == IF c \in LowerSet THEN UpperMap[c] ELSE c

\* the message used as typed, without str.lower()
lower_identity(s) == s

\* str.lower()
lower(s) == [i \in DOMAIN s |-> lower_char(s[i])]

\* str.startswith in place of `in`
Contains_prefix(hay, needle) ==
  /\ Len(needle) <= Len(hay)
  /\ \A k \in 1..Len(needle) : hay[k] = needle[k]

\* needle in hay
Contains(hay, needle) ==
  \E i \in 0..(Len(hay) - Len(needle)) : \A k \in 1..Len(needle) : hay[i + k] = needle[k]

\* seq[:n] without the truncation
Slice_all(seq, n) == seq

\* seq[:n]
Slice(seq, n) ==
  IF n >= 0 THEN SubSeq(seq, 1, IF n < Len(seq) THEN n ELSE Len(seq))
            ELSE SubSeq(seq, 1, IF Len(seq) + n > 0 THEN Len(seq) + n ELSE 0)

(***************************************************************************)
(* IEEE-754 doubles in [0, 2]: the value v is the pair <<hi, lo>> with     *)
(* v = (hi * 2^28 + lo) * 2^-56 and 0 <= lo < 2^28.                        *)
(***************************************************************************)
Limb == 268435456

F_0_0 == <<0, 0>>
F_0_1 == <<26843545, 161061274>>
F_0_2 == <<53687091, 53687092>>
F_0_3 == <<80530636, 214748364>>
F_0_4 == <<107374182, 107374184>>
F_0_5 == <<134217728, 0>>
F_0_6 == <<161061273, 161061272>>
F_0_7 == <<187904819, 53687088>>
F_0_75 == <<201326592, 0>>
F_0_8 == <<214748364, 214748368>>
F_0_85 == <<228170137, 161061272>>
F_0_88 == <<236223201, 75161928>>
F_0_9 == <<241591910, 107374184>>
F_0_92 == <<246960619, 139586440>>
F_0_95 == <<255013683, 53687088>>
F_1_0 == <<268435456, 0>>

\* a < b, a <= b on doubles
FLt(a, b) == a[1] < b[1] \/ (a[1] = b[1] /\ a[2] < b[2])
FLe(a, b) == a = b \/ FLt(a, b)
FMin_max(a, b) == IF FLt(b, a) THEN a ELSE b
FMin(a, b) == IF FLt(b, a) THEN b ELSE a

\* spacing of the doubles around the exact sum, in units of 2^-56
Quantum(hi) ==
  IF hi < 33554432 THEN 1
  ELSE IF hi < 67108864 THEN 2
  ELSE IF hi < 134217728 THEN 4
  ELSE IF hi < 268435456 THEN 8
  ELSE 16

\* a + b rounded to nearest, ties to even
FAdd(a, b) ==
  LET lo == a[2] + b[2]
      hi == a[1] + b[1] + (lo \div Limb)
      l  == lo % Limb
      q  == Quantum(hi)
      r  == l % q
      dn == l - r
      up == (2 * r > q) \/ (2 * r = q /\ (dn \div q) % 2 = 1)
      l2 == IF up THEN dn + q ELSE dn
  IN  IF l2 = Limb THEN <<hi + 1, 0>> ELSE <<hi, l2>>

(***************************************************************************)
(* String constants                                                        *)
(***************************************************************************)
s_Outlook_Not_Opening == <<"O","u","t","l","o","o","k"," ","N","o","t"," ","O","p","e","n","i","n","g">>
s_outlook_not_opening == <<"o","u","t","l","o","o","k"," ","n","o","t"," ","o","p","e","n","i","n","g">>
s_outlook_wont_start == <<"o","u","t","l","o","o","k"," ","w","o","n","'","t"," ","s","t","a","r","t">>
s_email_not_working == <<"e","m","a","i","l"," ","n","o","t"," ","w","o","r","k","i","n","g">>
s_outlook == <<"o","u","t","l","o","o","k">>
s_email == <<"e","m","a","i","l">>
s_microsoft == <<"m","i","c","r","o","s","o","f","t">>
s_VPN_Connection_Failure == <<"V","P","N"," ","C","o","n","n","e","c","t","i","o","n"," ","F","a","i","l","u","r","e">>
s_vpn_not_connecting == <<"v","p","n"," ","n","o","t"," ","c","o","n","n","e","c","t","i","n","g">>
s_vpn_connection_failed == <<"v","p","n"," ","c","o","n","n","e","c","t","i","o","n"," ","f","a","i","l","e","d">>
s_cannot_connect_to_vpn == <<"c","a","n","n","o","t"," ","c","o","n","n","e","c","t"," ","t","o"," ","v","p","n">>
s_vpn == <<"v","p","n">>
s_network == <<"n","e","t","w","o","r","k">>
s_connectivity == <<"c","o","n","n","e","c","t","i","v","i","t","y">>
s_Printer_Offline == <<"P","r","i","n","t","e","r"," ","O","f","f","l","i","n","e">>
s_printer_offline == <<"p","r","i","n","t","e","r"," ","o","f","f","l","i","n","e">>
s_cannot_print == <<"c","a","n","n","o","t"," ","p","r","i","n","t">>
s_Printer == <<"P","r","i","n","t","e","r">>
s_Email == <<"E","m","a","i","l">>
s_password == <<"p","a","s","s","w","o","r","d">>
s_Password_Reset == <<"P","a","s","s","w","o","r","d"," ","R","e","s","e","t">>
q_my_outlook == <<"m","y"," ","o","u","t","l","o","o","k"," ","i","s"," ","n","o","t"," ","o","p","e","n","i","n","g">>
q_everything == <<"O","u","t","l","o","o","k"," ","N","o","t"," ","O","p","e","n","i","n","g",","," ","V","P","N"," ","c","o","n","n","e","c","t","i","o","n"," ","f","a","i","l","e","d",","," ","p","r","i","n","t","e","r"," ","o","f","f","l","i","n","e",","," ","e","m","a","i","l">>
q_hello == <<"h","e","l","l","o">>
q_VPN == <<"V","P","N">>
q_outlook_title == <<"O","U","T","L","O","O","K"," ","N","O","T"," ","O","P","E","N","I","N","G">>
q_email_printer == <<"E","m","a","i","l"," ","p","r","i","n","t","e","r">>
q_two_symptoms == <<"o","u","t","l","o","o","k"," ","n","o","t"," ","o","p","e","n","i","n","g",","," ","e","m","a","i","l"," ","n","o","t"," ","w","o","r","k","i","n","g">>

(***************************************************************************)
(* Knowledge base (kb_processor.py)                                        *)
(***************************************************************************)
ServersIdle ==
  /\ started = FALSE
  /\ api_configured = FALSE
  /\ knowledge_base = <<>>
  /\ chat_sessions = <<>>
  /\ chat_messages = <<>>
  /\ last = [op |-> "none"]
  /\ server = "none"
  /\ requests = <<>>
  /\ running = 0
  /\ b_prompt = <<>>
  /\ b_context = <<>>
  /\ b_result = <<>>
  /\ b_pc = "idle"
  /\ incidents = <<>>
  /\ today = 1
  /\ i_calls = 0
  /\ i_last = [op |-> "none"]

GenIdle ==
  /\ g_prompt = <<>>
  /\ g_kb = <<>>
  /\ g_gen = [kind |-> "none"]
  /\ g_handler = "idle"
  /\ g_path = "none"
  /\ g_response = <<>>

\* A knowledge_base row (models.py KnowledgeBase); a NULL JSON column is <<>>.
KBRow(id, uc, req, sym, tg, act) ==
  [kb_id |-> id, use_case |-> uc, required_info |-> req,
   common_symptoms |-> sym, tags |-> tg, is_active |-> act]

initial_kb_data ==
  << KBRow("KB001", s_Outlook_Not_Opening,
           << [field |-> "operating_system"], [field |-> "error_message"] >>,
           << s_outlook_not_opening, s_outlook_wont_start, s_email_not_working >>,
           << s_outlook, s_email, s_microsoft >>, TRUE),
     KBRow("KB002", s_VPN_Connection_Failure,
           << [field |-> "vpn_client"], [field |-> "network_type"] >>,
           << s_vpn_not_connecting, s_vpn_connection_failed, s_cannot_connect_to_vpn >>,
           << s_vpn, s_network, s_connectivity >>, TRUE) >>

\* _calculate_match_score with the symptom loop lacking its break and the
\* result returned unclamped
calculate_match_score_nobreak(user_input, kb_entry) ==
  LET user_input_lower == lower(user_input)
      s1 == IF Contains(user_input_lower, lower(kb_entry.use_case))
            THEN FAdd(F_0_0, F_0_4) ELSE F_0_0
      AddSym[i \in 0..Len(kb_entry.common_symptoms)] ==
        IF i = 0 THEN s1
        ELSE IF Contains(user_input_lower, lower(kb_entry.common_symptoms[i]))
             THEN FAdd(AddSym[i - 1], F_0_3) ELSE AddSym[i - 1]
      s2 == AddSym[Len(kb_entry.common_symptoms)]
      s3 == IF \E i \in DOMAIN kb_entry.tags :
                 Contains(user_input_lower, lower(kb_entry.tags[i]))
            THEN FAdd(s2, F_0_2) ELSE s2
  IN  s3

_calculate_match_score(user_input, kb_entry) ==
  LET user_input_lower == lower(user_input)
      s1 == IF Contains(user_input_lower, lower(kb_entry.use_case))
            THEN FAdd(F_0_0, F_0_4) ELSE F_0_0
      s2 == IF \E i \in DOMAIN kb_entry.common_symptoms :
                 Contains(user_input_lower, lower(kb_entry.common_symptoms[i]))
            THEN FAdd(s1, F_0_3) ELSE s1
      s3 == IF \E i \in DOMAIN kb_entry.tags :
                 Contains(user_input_lower, lower(kb_entry.tags[i]))
            THEN FAdd(s2, F_0_2) ELSE s2
  IN  FMin(s3, F_1_0)

\* db.query(KnowledgeBase).filter(KnowledgeBase.is_active == True).all()
ActiveEntries(kb) == SelectSeq(kb, LAMBDA e : e.is_active)

\* the loop of find_matching_kb_entries without its threshold test
ScoredEntries_nothreshold(user_input, all_entries) ==
  [i \in DOMAIN all_entries |->
     <<all_entries[i], _calculate_match_score(user_input, all_entries[i])>>]

\* the loop of find_matching_kb_entries: (entry, score) pairs with score > 0.1
ScoredEntries(user_input, all_entries) ==
  LET pair(i) == <<all_entries[i], _calculate_match_score(user_input, all_entries[i])>>
      Loop[i \in 0..Len(all_entries)] ==
        IF i = 0 THEN <<>>
        ELSE IF FLt(F_0_1, pair(i)[2]) THEN Append(Loop[i - 1], pair(i))
             ELSE Loop[i - 1]
  IN  Loop[Len(all_entries)]

\* a descending sort that puts a later element before its equals
SortByScoreDesc_unstable(pairs) ==
  LET Insert(sorted, p) ==
        LET k == Cardinality({j \in DOMAIN sorted : FLt(p[2], sorted[j][2])})
        IN  SubSeq(sorted, 1, k) \o <<p>> \o SubSeq(sorted, k + 1, Len(sorted))
      Loop[i \in 0..Len(pairs)] ==
        IF i = 0 THEN <<>> ELSE Insert(Loop[i - 1], pairs[i])
  IN  Loop[Len(pairs)]

\* list.sort(key=lambda x: x[1], reverse=True): stable, descending
SortByScoreDesc(pairs) ==
  LET Insert(sorted, p) ==
        LET k == Cardinality({j \in DOMAIN sorted : FLe(p[2], sorted[j][2])})
        IN  SubSeq(sorted, 1, k) \o <<p>> \o SubSeq(sorted, k + 1, Len(sorted))
      Loop[i \in 0..Len(pairs)] ==
        IF i = 0 THEN <<>> ELSE Insert(Loop[i - 1], pairs[i])
  IN  Loop[Len(pairs)]

find_matching_kb_entries(user_input, kb, limit) ==
  LET all_entries == ActiveEntries(kb)
      scored_entries == SortByScoreDesc(ScoredEntries(user_input, all_entries))
      top_matches == Slice(scored_entries, limit)
  IN  [i \in DOMAIN top_matches |->
         [kb_id |-> top_matches[i][1].kb_id,
          use_case |-> top_matches[i][1].use_case,
          required_info |-> top_matches[i][1].required_info,
          common_symptoms |-> top_matches[i][1].common_symptoms,
          tags |-> top_matches[i][1].tags,
          is_active |-> top_matches[i][1].is_active,
          match_score |-> top_matches[i][2]]]

(***************************************************************************)
(* The matcher as a function of (query, catalog, limit)                    *)
(***************************************************************************)
EntryPool ==
  { initial_kb_data[1], initial_kb_data[2],
    KBRow("KB003", s_Printer_Offline, << [field |-> "printer_model"] >>,
          << s_printer_offline, s_cannot_print >>, << s_Printer >>, TRUE),
    KBRow("KB004", s_Email, <<>>, <<>>, << s_Email >>, TRUE),
    KBRow("KB005", s_Password_Reset, << [field |-> "employee_id"] >>,
          << s_email >>, <<>>, TRUE),
    KBRow("KB006", s_outlook, <<>>, << s_outlook >>, << s_outlook >>, FALSE) }

Queries ==
  { <<>>, q_my_outlook, q_everything, q_hello, q_VPN, q_outlook_title,
    q_email_printer, q_two_symptoms }

\* catalogs: rows with distinct kb_id, in insertion order
Catalogs ==
  UNION { { c \in [1..n -> EntryPool] : \A i, j \in 1..n : i # j => c[i] # c[j] }
          : n \in 0..MaxCatalog }

\* the value of the variables of a part that takes no step
MatchIdle ==
  /\ m_query = <<>>
  /\ m_catalog = <<>>
  /\ m_limit = 0
  /\ m_result = <<>>
  /\ m_pc = "idle"

InitMatch ==
  /\ GenIdle
  /\ ServersIdle
  /\ m_query \in Queries
  /\ m_catalog \in Catalogs
  /\ m_limit \in 0..MaxLimit
  /\ m_result = <<>>
  /\ m_pc = "call"

FindMatching ==
  /\ m_pc = "call"
  /\ m_result' = find_matching_kb_entries(m_query, m_catalog, m_limit)
  /\ m_pc' = "done"
  /\ UNCHANGED <<m_query, m_catalog, m_limit, g_vars, s_vars, r_vars, b_vars, i_vars>>

NextMatch == FindMatching

SpecMatch == InitMatch /\ [][NextMatch]_vars

(***************************************************************************)
(* Word lists and fixed texts of the response handlers                     *)
(***************************************************************************)
\* llm_handler_enhanced.py:165
question_words ==
  << <<"?">>,
     <<"w","h","a","t">>,
     <<"w","h","i","c","h">>,
     <<"w","h","e","n">>,
     <<"w","h","e","r","e">>,
     <<"h","o","w">>,
     <<"c","o","u","l","d"," ","y","o","u">>,
     <<"c","a","n"," ","y","o","u">>,
     <<"p","l","e","a","s","e"," ","p","r","o","v","i","d","e">> >>

\* llm_handler_enhanced.py:169-178; a pattern is its literal prefixes, then (\w+), then a captured literal suffix
action_patterns ==
  << [alts |-> << <<"r","e","s","t","a","r","t"," ","y","o","u","r"," ">>, <<"r","e","s","t","a","r","t"," ","t","h","e"," ">> >>, suffix |-> <<>>],
     [alts |-> << <<"c","h","e","c","k"," ","y","o","u","r"," ">>, <<"c","h","e","c","k"," ","t","h","e"," ">> >>, suffix |-> <<>>],
     [alts |-> << <<"v","e","r","i","f","y"," ","y","o","u","r"," ">>, <<"v","e","r","i","f","y"," ","t","h","e"," ">> >>, suffix |-> <<>>],
     [alts |-> << <<"u","p","d","a","t","e"," ","y","o","u","r"," ">>, <<"u","p","d","a","t","e"," ","t","h","e"," ">> >>, suffix |-> <<>>],
     [alts |-> << <<"c","o","n","t","a","c","t"," ">> >>, suffix |-> <<>>],
     [alts |-> << <<"e","s","c","a","l","a","t","e"," ","t","o"," ">> >>, suffix |-> <<>>],
     [alts |-> << <<"r","e","s","e","t"," ","y","o","u","r"," ">>, <<"r","e","s","e","t"," ","t","h","e"," ">> >>, suffix |-> <<>>],
     [alts |-> << <<"i","n","s","t","a","l","l"," ","t","h","e"," ">>, <<"i","n","s","t","a","l","l"," ","a"," ">> >>, suffix |-> <<>>] >>

\* llm_handler.py:153-160
legacy_action_patterns ==
  << [alts |-> << <<"r","e","s","t","a","r","t"," ","y","o","u","r"," ">>, <<"r","e","s","t","a","r","t"," ","t","h","e"," ">> >>, suffix |-> <<>>],
     [alts |-> << <<"c","h","e","c","k"," ","y","o","u","r"," ">>, <<"c","h","e","c","k"," ","t","h","e"," ">> >>, suffix |-> <<>>],
     [alts |-> << <<"v","e","r","i","f","y"," ","y","o","u","r"," ">>, <<"v","e","r","i","f","y"," ","t","h","e"," ">> >>, suffix |-> <<>>],
     [alts |-> << <<"u","p","d","a","t","e"," ","y","o","u","r"," ">>, <<"u","p","d","a","t","e"," ","t","h","e"," ">> >>, suffix |-> <<>>],
     [alts |-> << <<"c","o","n","t","a","c","t"," ">> >>, suffix |-> <<" ","s","u","p","p","o","r","t">>],
     [alts |-> << <<"e","s","c","a","l","a","t","e"," ","t","o"," ">> >>, suffix |-> <<>>] >>

\* llm_handler_enhanced.py:197
escalation_words ==
  << <<"e","s","c","a","l","a","t","e">>,
     <<"a","g","e","n","t">>,
     <<"h","u","m","a","n">>,
     <<"s","p","e","c","i","a","l","i","s","t">> >>

\* llm_handler_enhanced.py:199
instruction_words ==
  << <<"s","t","e","p">>,
     <<"p","r","o","c","e","d","u","r","e">>,
     <<"g","u","i","d","e">>,
     <<"t","u","t","o","r","i","a","l">> >>

\* llm_handler_enhanced.py:254
time_words_5 ==
  << <<"i","m","m","e","d","i","a","t","e","l","y">>,
     <<"i","n","s","t","a","n","t">>,
     <<"r","i","g","h","t"," ","a","w","a","y">>,
     <<"q","u","i","c","k">> >>

\* llm_handler_enhanced.py:256
time_words_15 ==
  << <<"s","i","m","p","l","e">>,
     <<"e","a","s","y">>,
     <<"f","e","w"," ","m","i","n","u","t","e","s">>,
     <<"r","e","s","t","a","r","t">> >>

\* llm_handler_enhanced.py:258
time_words_120 ==
  << <<"c","o","m","p","l","e","x">>,
     <<"e","s","c","a","l","a","t","e">>,
     <<"s","p","e","c","i","a","l","i","s","t">>,
     <<"e","n","g","i","n","e","e","r">> >>

\* llm_handler_enhanced.py:260
time_words_45 ==
  << <<"m","u","l","t","i","p","l","e"," ","s","t","e","p","s">>,
     <<"p","r","o","c","e","d","u","r","e">>,
     <<"c","o","n","f","i","g","u","r","e">> >>

\* llm_handler_enhanced.py:267
positive_words ==
  << <<"g","r","e","a","t">>,
     <<"e","x","c","e","l","l","e","n","t">>,
     <<"p","e","r","f","e","c","t">>,
     <<"w","o","n","d","e","r","f","u","l">>,
     <<"h","a","p","p","y">>,
     <<"g","l","a","d">>,
     <<"e","a","s","y">>,
     <<"s","i","m","p","l","e">>,
     <<"q","u","i","c","k">>,
     <<"r","e","s","o","l","v","e","d">> >>

\* llm_handler_enhanced.py:268
negative_words ==
  << <<"u","n","f","o","r","t","u","n","a","t","e","l","y">>,
     <<"s","o","r","r","y">>,
     <<"a","p","o","l","o","g","i","z","e">>,
     <<"c","o","m","p","l","e","x">>,
     <<"d","i","f","f","i","c","u","l","t">>,
     <<"e","s","c","a","l","a","t","e">>,
     <<"s","p","e","c","i","a","l","i","s","t">> >>

\* llm_handler.py:170-173
clarification_indicators ==
  << <<"w","h","a","t">>,
     <<"w","h","i","c","h">>,
     <<"w","h","e","n">>,
     <<"w","h","e","r","e">>,
     <<"h","o","w">>,
     <<"c","o","u","l","d"," ","y","o","u">>,
     <<"c","a","n"," ","y","o","u">>,
     <<"p","l","e","a","s","e"," ","s","p","e","c","i","f","y">>,
     <<"n","e","e","d"," ","m","o","r","e"," ","i","n","f","o","r","m","a","t","i","o","n">>,
     <<"c","l","a","r","i","f","y">> >>

\* llm_handler_enhanced.py:191
generic_actions ==
  << <<"F","o","l","l","o","w"," ","t","h","e"," ","s","t","e","p","s"," ","a","b","o","v","e">>,
     <<"P","r","o","v","i","d","e"," ","m","o","r","e"," ","d","e","t","a","i","l","s"," ","i","f"," ","n","e","e","d","e","d">> >>

\* llm_handler_enhanced.py:248
generic_next_steps ==
  << <<"M","o","n","i","t","o","r"," ","t","h","e"," ","s","i","t","u","a","t","i","o","n">>,
     <<"R","e","p","o","r","t"," ","b","a","c","k"," ","i","f"," ","i","s","s","u","e"," ","c","o","n","t","i","n","u","e","s">> >>

\* llm_handler_enhanced.py:227
safe_default_actions ==
  << <<"C","o","n","t","a","c","t"," ","s","u","p","p","o","r","t"," ","i","f"," ","i","s","s","u","e"," ","p","e","r","s","i","s","t","s">> >>

\* llm_handler_enhanced.py:229
safe_default_next_steps ==
  << <<"R","e","v","i","e","w"," ","t","h","e"," ","p","r","o","v","i","d","e","d"," ","i","n","f","o","r","m","a","t","i","o","n">> >>

\* llm_handler.py:147
legacy_safe_default_next_steps ==
  << <<"P","l","e","a","s","e"," ","p","r","o","v","i","d","e"," ","m","o","r","e"," ","d","e","t","a","i","l","s"," ","a","b","o","u","t"," ","y","o","u","r"," ","i","s","s","u","e",".">> >>

s_step ==
  <<"s","t","e","p">>

s_slow ==
  <<"s","l","o","w">>

s_performance ==
  <<"p","e","r","f","o","r","m","a","n","c","e">>

\* llm_handler_enhanced.py:304
enh_mock_outlook_actions ==
  << <<"R","e","s","t","a","r","t"," ","O","u","t","l","o","o","k">>,
     <<"C","h","e","c","k"," ","E","r","r","o","r"," ","M","e","s","s","a","g","e","s">>,
     <<"P","r","o","v","i","d","e"," ","O","S"," ","D","e","t","a","i","l","s">> >>

\* llm_handler_enhanced.py:306
enh_mock_outlook_steps ==
  << <<"T","r","y"," ","s","a","f","e"," ","m","o","d","e">>,
     <<"N","o","t","e"," ","a","n","y"," ","e","r","r","o","r"," ","c","o","d","e","s">>,
     <<"R","e","p","o","r","t"," ","b","a","c","k"," ","w","i","t","h"," ","s","y","s","t","e","m"," ","d","e","t","a","i","l","s">> >>

\* llm_handler_enhanced.py:332
enh_mock_vpn_actions ==
  << <<"R","e","s","t","a","r","t"," ","V","P","N">>,
     <<"C","h","e","c","k"," ","I","n","t","e","r","n","e","t">>,
     <<"V","e","r","i","f","y"," ","C","r","e","d","e","n","t","i","a","l","s">> >>

\* llm_handler_enhanced.py:334
enh_mock_vpn_steps ==
  << <<"I","d","e","n","t","i","f","y"," ","V","P","N"," ","c","l","i","e","n","t">>,
     <<"N","o","t","e"," ","e","r","r","o","r"," ","m","e","s","s","a","g","e","s">>,
     <<"T","r","y"," ","b","a","s","i","c"," ","t","r","o","u","b","l","e","s","h","o","o","t","i","n","g">> >>

\* llm_handler_enhanced.py:355
enh_mock_password_actions ==
  << <<"U","s","e"," ","S","e","l","f","-","S","e","r","v","i","c","e">>,
     <<"C","h","e","c","k"," ","E","m","a","i","l">>,
     <<"V","e","r","i","f","y"," ","I","d","e","n","t","i","t","y">> >>

\* llm_handler_enhanced.py:357
enh_mock_password_steps ==
  << <<"T","r","y"," ","s","e","l","f","-","s","e","r","v","i","c","e"," ","p","o","r","t","a","l">>,
     <<"C","h","e","c","k"," ","e","m","a","i","l"," ","f","o","r"," ","r","e","s","e","t"," ","l","i","n","k","s">>,
     <<"P","r","o","v","i","d","e"," ","v","e","r","i","f","i","c","a","t","i","o","n"," ","d","e","t","a","i","l","s">> >>

\* llm_handler_enhanced.py:381
enh_mock_other_actions ==
  << <<"D","e","s","c","r","i","b","e"," ","t","h","e"," ","I","s","s","u","e">>,
     <<"S","h","a","r","e"," ","E","r","r","o","r"," ","D","e","t","a","i","l","s">>,
     <<"E","x","p","l","a","i","n"," ","W","h","a","t"," ","Y","o","u","'","v","e"," ","T","r","i","e","d">> >>

\* llm_handler_enhanced.py:383
enh_mock_other_steps ==
  << <<"P","r","o","v","i","d","e"," ","d","e","t","a","i","l","e","d"," ","d","e","s","c","r","i","p","t","i","o","n">>,
     <<"N","o","t","e"," ","e","r","r","o","r"," ","m","e","s","s","a","g","e","s">>,
     <<"S","h","a","r","e"," ","t","r","o","u","b","l","e","s","h","o","o","t","i","n","g"," ","a","t","t","e","m","p","t","s">> >>

\* llm_handler_enhanced.py:408
enh_fallback_actions ==
  << <<"R","e","t","r","y"," ","Q","u","e","s","t","i","o","n">>,
     <<"C","h","e","c","k"," ","K","n","o","w","l","e","d","g","e"," ","B","a","s","e">>,
     <<"C","r","e","a","t","e"," ","M","a","n","u","a","l"," ","T","i","c","k","e","t">> >>

\* llm_handler_enhanced.py:410
enh_fallback_steps ==
  << <<"W","a","i","t"," ","a"," ","m","o","m","e","n","t"," ","a","n","d"," ","r","e","t","r","y">>,
     <<"B","r","o","w","s","e"," ","k","n","o","w","l","e","d","g","e"," ","b","a","s","e">>,
     <<"C","r","e","a","t","e"," ","i","n","c","i","d","e","n","t"," ","i","f"," ","u","r","g","e","n","t">> >>

\* llm_handler.py:194
leg_mock_outlook_actions ==
  << <<"r","e","s","t","a","r","t"," ","o","u","t","l","o","o","k">>,
     <<"c","h","e","c","k"," ","i","n","t","e","r","n","e","t"," ","c","o","n","n","e","c","t","i","o","n">> >>

\* llm_handler.py:196
leg_mock_outlook_steps ==
  << <<"G","a","t","h","e","r"," ","s","y","s","t","e","m"," ","i","n","f","o","r","m","a","t","i","o","n">>,
     <<"I","d","e","n","t","i","f","y"," ","e","r","r","o","r"," ","m","e","s","s","a","g","e","s">> >>

\* llm_handler.py:203
leg_mock_vpn_actions ==
  << <<"r","e","s","t","a","r","t"," ","v","p","n"," ","c","l","i","e","n","t">>,
     <<"c","h","e","c","k"," ","n","e","t","w","o","r","k"," ","s","e","t","t","i","n","g","s">> >>

\* llm_handler.py:205
leg_mock_vpn_steps ==
  << <<"I","d","e","n","t","i","f","y"," ","V","P","N"," ","c","l","i","e","n","t"," ","t","y","p","e">>,
     <<"C","h","e","c","k"," ","n","e","t","w","o","r","k"," ","c","o","n","n","e","c","t","i","v","i","t","y">> >>

\* llm_handler.py:212
leg_mock_password_actions ==
  << <<"v","e","r","i","f","y"," ","i","d","e","n","t","i","t","y">>,
     <<"r","e","s","e","t"," ","p","a","s","s","w","o","r","d">> >>

\* llm_handler.py:214
leg_mock_password_steps ==
  << <<"V","e","r","i","f","y"," ","u","s","e","r"," ","i","d","e","n","t","i","t","y">>,
     <<"I","n","i","t","i","a","t","e"," ","p","a","s","s","w","o","r","d"," ","r","e","s","e","t"," ","p","r","o","c","e","s","s">> >>

\* llm_handler.py:223
leg_mock_other_steps ==
  << <<"G","a","t","h","e","r"," ","i","n","c","i","d","e","n","t"," ","d","e","t","a","i","l","s">>,
     <<"I","d","e","n","t","i","f","y"," ","p","r","o","b","l","e","m"," ","c","a","t","e","g","o","r","y">> >>

\* llm_handler.py:232
leg_fallback_actions ==
  << <<"c","r","e","a","t","e"," ","i","n","c","i","d","e","n","t"," ","t","i","c","k","e","t">> >>

\* llm_handler.py:234
leg_fallback_steps ==
  << <<"C","o","l","l","e","c","t"," ","i","n","c","i","d","e","n","t"," ","d","e","t","a","i","l","s">>,
     <<"C","r","e","a","t","e"," ","m","a","n","u","a","l"," ","t","i","c","k","e","t">> >>

\* llm_handler_simple.py:35
simple_outlook_actions ==
  << <<"R","e","s","t","a","r","t"," ","O","u","t","l","o","o","k">>,
     <<"C","h","e","c","k"," ","E","r","r","o","r"," ","M","e","s","s","a","g","e">>,
     <<"V","e","r","i","f","y"," ","S","e","t","t","i","n","g","s">> >>

\* llm_handler_simple.py:60
simple_vpn_actions ==
  << <<"R","e","s","t","a","r","t"," ","V","P","N">>,
     <<"C","h","e","c","k"," ","I","n","t","e","r","n","e","t">>,
     <<"V","e","r","i","f","y"," ","C","r","e","d","e","n","t","i","a","l","s">> >>

\* llm_handler_simple.py:82
simple_password_actions ==
  << <<"U","s","e"," ","S","e","l","f","-","S","e","r","v","i","c","e">>,
     <<"C","o","n","t","a","c","t"," ","H","e","l","p","d","e","s","k">>,
     <<"P","r","o","v","i","d","e"," ","E","m","p","l","o","y","e","e"," ","I","D">> >>

\* llm_handler_simple.py:106
simple_slow_actions ==
  << <<"R","e","s","t","a","r","t"," ","C","o","m","p","u","t","e","r">>,
     <<"C","l","o","s","e"," ","A","p","p","l","i","c","a","t","i","o","n","s">>,
     <<"C","h","e","c","k"," ","U","p","d","a","t","e","s">> >>

\* llm_handler_simple.py:127
simple_other_actions ==
  << <<"D","e","s","c","r","i","b","e"," ","t","h","e"," ","I","s","s","u","e">>,
     <<"S","h","a","r","e"," ","E","r","r","o","r"," ","D","e","t","a","i","l","s">>,
     <<"E","x","p","l","a","i","n"," ","W","h","a","t"," ","H","a","p","p","e","n","e","d">> >>

(***************************************************************************)
(* Text processing used by the response normalizers (str and re)           *)
(***************************************************************************)
SetMin(S) == CHOOSE x \in S : \A y \in S : x <= y
SetMax(S) == CHOOSE x \in S : \A y \in S : x >= y
Range(seq) == {seq[i] : i \in DOMAIN seq}

\* \w and \s of the re module
WordChars == UpperSet \cup LowerSet \cup Digits \cup {"_"}
IsSpace(c) == c \in Whitespace
IsLetter(c) == c \in UpperSet \cup LowerSet
BulletChars == {"BULLET", "-"}

\* str.strip()
strip(s) ==
  LET idx == {i \in DOMAIN s : ~IsSpace(s[i])}
  IN  IF idx = {} THEN <<>> ELSE SubSeq(s, SetMin(idx), SetMax(idx))

\* str.split('\n')
split_lines(s) ==
  LET nl == {i \in DOMAIN s : s[i] = "\n"}
      n == Cardinality(nl)
      pos(k) == IF k = 0 THEN 0
                ELSE IF k = n + 1 THEN Len(s) + 1
                ELSE CHOOSE p \in nl : Cardinality({q \in nl : q < p}) = k - 1
  IN  [k \in 1..(n + 1) |-> SubSeq(s, pos(k - 1) + 1, pos(k) - 1)]

\* '\n'.join(lines)
join_lines(lines) ==
  LET Loop[i \in 0..Len(lines)] ==
        IF i = 0 THEN <<>>
        ELSE IF i = 1 THEN lines[1]
        ELSE Loop[i - 1] \o <<"\n">> \o lines[i]
  IN  Loop[Len(lines)]

\* str.title(): a letter is upper-cased after a non-letter, lower-cased otherwise
title(s) ==
  [i \in DOMAIN s |->
     IF i = 1 \/ ~IsLetter(s[i - 1]) THEN upper_char(s[i]) ELSE lower_char(s[i])]

\* any(word in text for word in words)
AnyIn(words, text) == \E i \in DOMAIN words : Contains(text, words[i])

\* the literal p occurs in s at index i
StartsAt(s, i, p) ==
  /\ i + Len(p) - 1 <= Len(s)
  /\ \A k \in 1..Len(p) : s[i + k - 1] = p[k]

\* last index of the longest run of characters of chars that starts at
\* index i (i - 1 when the run is empty)
RunEnd(s, i, chars) ==
  LET stops == {j \in i..Len(s) : s[j] \notin chars}
  IN  IF stops = {} THEN Len(s) ELSE SetMin(stops) - 1

\* last index of the longest run of characters outside chars that starts at i
RunEndUntil(s, i, chars) ==
  LET stops == {j \in i..Len(s) : s[j] \in chars}
  IN  IF stops = {} THEN Len(s) ELSE SetMin(stops) - 1

\* the alternatives of pat whose whole pattern matches s at index i
MatchingAlts(pat, s, i) ==
  {a \in DOMAIN pat.alts :
     /\ StartsAt(s, i, pat.alts[a])
     /\ RunEnd(s, i + Len(pat.alts[a]), WordChars) >= i + Len(pat.alts[a])
     /\ StartsAt(s, RunEnd(s, i + Len(pat.alts[a]), WordChars) + 1, pat.suffix)}

\* re.findall(pattern, s) for a pattern with one group: the captures of the
\* non-overlapping matches, leftmost first
RECURSIVE findall_from(_, _, _)
findall_from(pat, s, i) ==
  LET starts == {j \in i..Len(s) : MatchingAlts(pat, s, j) # {}}
  IN  IF starts = {} THEN <<>>
      ELSE LET j == SetMin(starts)
               st == j + Len(pat.alts[SetMin(MatchingAlts(pat, s, j))])
               en == RunEnd(s, st, WordChars) + Len(pat.suffix)
           IN  <<SubSeq(s, st, en)>> \o findall_from(pat, s, en + 1)

findall(pat, s) == findall_from(pat, s, 1)

\* for pattern in patterns: actions.extend(re.findall(pattern, s))
ExtendAll(patterns, s) ==
  LET Loop[i \in 0..Len(patterns)] ==
        IF i = 0 THEN <<>> ELSE Loop[i - 1] \o findall(patterns[i], s)
  IN  Loop[Len(patterns)]

\* the iteration orders list(set(...)) can produce for the set S
RECURSIVE Orders(_)
Orders(S) ==
  IF S = {} THEN {<<>>}
  ELSE UNION { { <<x>> \o o : o \in Orders(S \ {x}) } : x \in S }

\* re.match(r'^\d+\.', line)
IsNumbered(line) ==
  LET e == RunEnd(line, 1, Digits)
  IN  e >= 1 /\ e + 1 <= Len(line) /\ line[e + 1] = "."

\* re.match(r'^[BULLET\-]\s', line)
IsBulleted(line) ==
  Len(line) >= 2 /\ line[1] \in BulletChars /\ IsSpace(line[2])

\* re.match(r'^step\s+\d+', line.lower())
IsStepN(line) ==
  LET l == lower(line)
      sp == RunEnd(l, 5, Whitespace)
  IN  StartsAt(l, 1, s_step) /\ sp >= 5 /\ RunEnd(l, sp + 1, Digits) >= sp + 1

\* end of the match of ^\d+\.\s*|[BULLET\-]\s*|^step\s+\d+\s* at index 1 (0: none)
PrefixMatchEnd(line) ==
  IF IsNumbered(line) THEN RunEnd(line, RunEnd(line, 1, Digits) + 2, Whitespace)
  ELSE IF Len(line) >= 1 /\ line[1] \in BulletChars THEN RunEnd(line, 2, Whitespace)
  ELSE IF IsStepN(line)
       THEN RunEnd(line, RunEnd(line, RunEnd(line, 5, Whitespace) + 1, Digits) + 1, Whitespace)
  ELSE 0

\* the rest of that re.sub: past index 1 only [BULLET\-]\s* can match
RECURSIVE sub_from(_, _)
sub_from(line, i) ==
  LET hits == {j \in i..Len(line) : line[j] \in BulletChars}
  IN  IF hits = {} THEN SubSeq(line, i, Len(line))
      ELSE SubSeq(line, i, SetMin(hits) - 1)
             \o sub_from(line, RunEnd(line, SetMin(hits) + 1, Whitespace) + 1)

\* re.sub(r'^\d+\.\s*|[BULLET\-]\s*|^step\s+\d+\s*', '', line, flags=re.IGNORECASE)
clean_step(line) == sub_from(line, PrefixMatchEnd(line) + 1)

\* re.split(r'[.!?]+', text): the pieces between runs of . ! ?
SentenceEnd == {".", "!", "?"}
RECURSIVE split_sentences_from(_, _)
split_sentences_from(text, i) ==
  LET e == RunEndUntil(text, i, SentenceEnd)
  IN  IF e >= Len(text) THEN <<SubSeq(text, i, Len(text))>>
      ELSE <<SubSeq(text, i, e)>>
             \o split_sentences_from(text, RunEnd(text, e + 1, SentenceEnd) + 1)

split_sentences(text) == split_sentences_from(text, 1)

(***************************************************************************)
(* Generator texts and user messages                                       *)
(***************************************************************************)
t_empty == <<>>
t_blank == <<" "," ","\n"," ">>
t_ok == <<"o","k">>
t_router == <<"P","l","e","a","s","e"," ","r","e","s","t","a","r","t"," ","y","o","u","r"," ","r","o","u","t","e","r",".","\n","1","."," ","U","n","p","l","u","g"," ","i","t",".","\n","2","."," ","W","a","i","t"," ","1","0"," ","s","e","c","o","n","d","s",".">>
t_which == <<"W","h","i","c","h"," ","V","P","N"," ","c","l","i","e","n","t"," ","a","r","e"," ","y","o","u"," ","u","s","i","n","g","?">>
t_badjson == <<"T","r","y"," ","{","t","h","i","s","}"," ","t","h","e","n"," ","r","e","s","t","a","r","t"," ","t","h","e"," ","P","C","-","2"," ","b","o","x">>
t_actions == <<"R","e","s","t","a","r","t"," ","y","o","u","r"," ","r","o","u","t","e","r",","," ","c","h","e","c","k"," ","t","h","e"," ","c","a","b","l","e"," ","a","n","d"," ","v","e","r","i","f","y"," ","y","o","u","r"," ","l","o","g","i","n",".","\n","U","p","d","a","t","e"," ","t","h","e"," ","d","r","i","v","e","r"," ","o","r"," ","c","o","n","t","a","c","t"," ","s","u","p","p","o","r","t","."," ","T","h","e","n"," ","r","e","s","e","t"," ","y","o","u","r"," ","r","o","u","t","e","r",".">>
t_long == <<"T","h","e"," ","f","i","x"," ","i","s"," ","e","a","s","y",".","\n","O","p","e","n"," ","t","h","e"," ","s","e","t","t","i","n","g","s"," ","p","a","g","e",".","\n","P","i","c","k"," ","t","h","e"," ","m","a","i","l"," ","p","r","o","f","i","l","e"," ","e","n","t","r","y",".","\n","S","a","v","e"," ","a","n","d"," ","c","l","o","s","e"," ","i","t",".">>
t_steps == <<"F","o","l","l","o","w"," ","t","h","i","s"," ","p","r","o","c","e","d","u","r","e",":","\n","1","."," ","R","e","-","i","n","s","t","a","l","l"," ","t","h","e"," ","m","a","i","l"," ","c","l","i","e","n","t","\n","-"," ","C","l","e","a","r"," ","t","h","e"," ","c","a","c","h","e"," ","-"," ","t","h","e","n"," ","s","i","g","n"," ","i","n","\n","S","t","e","p"," ","2"," ","r","e","b","o","o","t"," ","t","h","e"," ","m","a","c","h","i","n","e"," ","n","o","w","\n","BULLET"," ","o","k","\n","1","2",".","O","p","e","n"," ","O","u","t","l","o","o","k"," ","a","g","a","i","n">>
t_escalate == <<"I"," ","a","m"," ","s","o","r","r","y",","," ","t","h","i","s"," ","i","s"," ","c","o","m","p","l","e","x",".","\n","A"," ","s","p","e","c","i","a","l","i","s","t"," ","w","i","l","l"," ","c","o","n","t","a","c","t"," ","y","o","u",".">>
t_show == <<"S","e","t","t","i","n","g","s"," ","s","h","o","w"," ","u","p",".","\n","N","o","t","h","i","n","g"," ","e","l","s","e"," ","t","o"," ","d","o"," ","h","e","r","e"," ","t","o","d","a","y",".">>
t_contact == <<"P","l","e","a","s","e"," ","c","o","n","t","a","c","t"," ","I","T"," ","s","u","p","p","o","r","t"," ","o","r"," ","c","o","n","t","a","c","t"," ","u","s","."," ","C","h","e","c","k"," ","y","o","u","r"," ","w","i","_","f","i"," ","n","o","w">>
p_outlook == <<"O","u","t","l","o","o","k"," ","n","o","t"," ","o","p","e","n","i","n","g">>
p_vpn == <<"V","P","N"," ","k","e","e","p","s"," ","d","r","o","p","p","i","n","g">>
p_password == <<"P","A","S","S","W","O","R","D"," ","r","e","s","e","t">>
p_email_slow == <<"e","m","a","i","l"," ","i","s"," ","s","l","o","w">>
p_password_vpn == <<"p","a","s","s","w","o","r","d"," ","f","o","r"," ","t","h","e"," ","v","p","n">>
p_pw_vpn_outlook == <<"P","a","s","s","w","o","r","d",","," ","V","P","N",","," ","O","u","t","l","o","o","k">>
p_still_broken == <<"I","t"," ","i","s"," ","S","T","I","L","L"," ","b","r","o","k","e","n",","," ","t","h","a","n","k","s">>
p_urgent_problem == <<"U","r","g","e","n","t"," ","p","r","o","b","l","e","m">>
p_thanks_error == <<"t","h","a","n","k","s",","," ","t","h","e"," ","e","r","r","o","r"," ","i","s"," ","f","i","x","e","d">>
p_thanks_great == <<"T","h","a","n","k","s",","," ","g","r","e","a","t">>
p_i_know == <<"I"," ","k","n","o","w",","," ","t","h","a","n","k","s">>
p_hi == <<"h","i"," ","t","h","e","r","e">>
p_blank == <<" "," "," ">>

\* a text that is one JSON object
json_text == <<"{","\"","c","o","n","f","i","d","e","n","c","e","\"",":"," ","1",".","0",",",
               " ","\"","r","e","q","u","i","r","e","s","_","c","l","a","r","i","f","i","c","a","t","i","o","n","\"",":"," ","t","r","u","e","}">>
t_json == json_text

\* texts the provider returns
RawTexts ==
  { t_empty, t_blank, t_ok, t_router, t_which, t_json, t_badjson, t_actions,
    t_long, t_steps, t_escalate, t_show, t_contact }

(***************************************************************************)
(* EnhancedLLMHandler (llm_handler_enhanced.py)                            *)
(***************************************************************************)
\* dict.get(key, default)
Get(d, key, default) == IF key \in DOMAIN d THEN d[key] ELSE default

\* the stripped non-empty lines the parsing loop visits (cleaned_response)
CleanedLines(response_text) ==
  LET lines == split_lines(strip(response_text))
      stripped == [i \in DOMAIN lines |-> strip(lines[i])]
  IN  SelectSeq(stripped, LAMBDA l : l # <<>>)

\* requires_clarification after the loop
RequiresClarification(cleaned) ==
  \E i \in DOMAIN cleaned : AnyIn(question_words, lower(cleaned[i]))

\* suggested_actions after the loop: every capture, line by line, pattern by pattern
ExtractedActions(cleaned) ==
  LET Loop[i \in 0..Len(cleaned)] ==
        IF i = 0 THEN <<>>
        ELSE Loop[i - 1] \o ExtendAll(action_patterns, lower(cleaned[i]))
  IN  Loop[Len(cleaned)]

\* set([action.title() for action in suggested_actions if len(action) > 2])
ActionSet(response_text) ==
  {title(a) : a \in {b \in Range(ExtractedActions(CleanedLines(response_text))) : Len(b) > 2}}

\* keeps a step of 10 characters: len(clean_step) >= 10
extract_enhanced_next_steps_ge(text) ==
  LET lines == split_lines(text)
      Loop[i \in 0..Len(lines)] ==
        IF i = 0 THEN <<>>
        ELSE LET line == strip(lines[i])
             IN  IF (IsNumbered(line) \/ IsBulleted(line) \/ IsStepN(line))
                    /\ Len(clean_step(line)) >= 10
                 THEN Append(Loop[i - 1], clean_step(line))
                 ELSE Loop[i - 1]
      steps == Loop[Len(lines)]
  IN  IF steps # <<>> THEN Slice(steps, 4) ELSE generic_next_steps

_extract_enhanced_next_steps(text) ==
  LET lines == split_lines(text)
      Loop[i \in 0..Len(lines)] ==
        IF i = 0 THEN <<>>
        ELSE LET line == strip(lines[i])
             IN  IF (IsNumbered(line) \/ IsBulleted(line) \/ IsStepN(line))
                    /\ Len(clean_step(line)) > 10
                 THEN Append(Loop[i - 1], clean_step(line))
                 ELSE Loop[i - 1]
      steps == Loop[Len(lines)]
  IN  IF steps # <<>> THEN Slice(steps, 4) ELSE generic_next_steps

_estimate_resolution_time(text) ==
  LET text_lower == lower(text)
  IN  IF AnyIn(time_words_5, text_lower) THEN 5
      ELSE IF AnyIn(time_words_15, text_lower) THEN 15
      ELSE IF AnyIn(time_words_120, text_lower) THEN 120
      ELSE IF AnyIn(time_words_45, text_lower) THEN 45
      ELSE 30

_analyze_response_sentiment(text) ==
  LET text_lower == lower(text)
      positive_count == Cardinality({i \in DOMAIN positive_words : Contains(text_lower, positive_words[i])})
      negative_count == Cardinality({i \in DOMAIN negative_words : Contains(text_lower, negative_words[i])})
  IN  IF positive_count > negative_count THEN "positive"
      ELSE IF negative_count > positive_count THEN "negative"
      ELSE "neutral"

\* The normalizer.  set_order is the order in which list(set(...)) yields the
\* distinct title-cased actions: one of Orders(ActionSet(response_text)).
\* No statement of the try block raises on a str, so the except branch
\* (the safe default) is taken for no response_text.
parse_enhanced_ai_response_six_fields(response_text, set_order) ==
  [response |-> join_lines(CleanedLines(response_text)),
   type |-> "information",
   confidence |-> F_0_7,
   suggested_actions |-> Slice(set_order, 4),
   requires_clarification |-> RequiresClarification(CleanedLines(response_text)),
   next_steps |-> _extract_enhanced_next_steps(response_text)]

_parse_enhanced_ai_response(response_text, set_order) ==
  LET cleaned_response == CleanedLines(response_text)
      requires_clarification == RequiresClarification(cleaned_response)
      listed == Slice(set_order, 4)
      suggested_actions ==
        IF listed = <<>> /\ Len(cleaned_response) > 3 THEN generic_actions ELSE listed
      response_type ==
        IF requires_clarification THEN "clarification"
        ELSE IF AnyIn(escalation_words, lower(response_text)) THEN "escalation"
        ELSE IF AnyIn(instruction_words, lower(response_text)) THEN "instructions"
        ELSE "information"
      confidence ==
        IF requires_clarification THEN F_0_7
        ELSE IF Len(cleaned_response) < 2 THEN F_0_6
        ELSE IF Cardinality({i \in DOMAIN cleaned_response : Len(cleaned_response[i]) > 20}) < 2
             THEN F_0_75
        ELSE F_0_9
  IN  [response |-> join_lines(cleaned_response),
       type |-> response_type,
       confidence |-> FMin(confidence, F_0_95),
       suggested_actions |-> suggested_actions,
       requires_clarification |-> requires_clarification,
       next_steps |-> _extract_enhanced_next_steps(response_text),
       estimated_resolution_time |-> _estimate_resolution_time(response_text),
       sentiment |-> _analyze_response_sentiment(response_text)]

\* the except branch of _parse_enhanced_ai_response
EnhancedSafeDefault(response_text) ==
  [response |-> strip(response_text),
   type |-> "information",
   confidence |-> F_0_7,
   suggested_actions |-> safe_default_actions,
   requires_clarification |-> FALSE,
   next_steps |-> safe_default_next_steps,
   estimated_resolution_time |-> 30,
   sentiment |-> "neutral"]

\* The fixed reply texts are only stored and returned; each is kept as a
\* one-token text naming the bucket.
MockText(handler, bucket) == << "<" \o handler \o " reply: " \o bucket \o ">" >>

\* first bucket keyed on 'outlook' or 'email'
generate_enhanced_mock_response_email(prompt) ==
  LET prompt_lower == lower(prompt)
  IN  IF Contains(prompt_lower, s_outlook) \/ Contains(prompt_lower, s_email)
      THEN [response |-> MockText("enhanced", "outlook"), type |-> "clarification",
            confidence |-> F_0_85, suggested_actions |-> enh_mock_outlook_actions,
            requires_clarification |-> TRUE, next_steps |-> enh_mock_outlook_steps,
            estimated_resolution_time |-> 20, sentiment |-> "positive"]
      ELSE IF Contains(prompt_lower, s_vpn)
      THEN [response |-> MockText("enhanced", "vpn"), type |-> "clarification",
            confidence |-> F_0_88, suggested_actions |-> enh_mock_vpn_actions,
            requires_clarification |-> TRUE, next_steps |-> enh_mock_vpn_steps,
            estimated_resolution_time |-> 25, sentiment |-> "positive"]
      ELSE IF Contains(prompt_lower, s_password)
      THEN [response |-> MockText("enhanced", "password"), type |-> "verification",
            confidence |-> F_0_92, suggested_actions |-> enh_mock_password_actions,
            requires_clarification |-> TRUE, next_steps |-> enh_mock_password_steps,
            estimated_resolution_time |-> 10, sentiment |-> "neutral"]
      ELSE [response |-> MockText("enhanced", "other"), type |-> "clarification",
            confidence |-> F_0_8, suggested_actions |-> enh_mock_other_actions,
            requires_clarification |-> TRUE, next_steps |-> enh_mock_other_steps,
            estimated_resolution_time |-> 30, sentiment |-> "positive"]

_generate_enhanced_mock_response(prompt) ==
  LET prompt_lower == lower(prompt)
  IN  IF Contains(prompt_lower, s_outlook)
      THEN [response |-> MockText("enhanced", "outlook"), type |-> "clarification",
            confidence |-> F_0_85, suggested_actions |-> enh_mock_outlook_actions,
            requires_clarification |-> TRUE, next_steps |-> enh_mock_outlook_steps,
            estimated_resolution_time |-> 20, sentiment |-> "positive"]
      ELSE IF Contains(prompt_lower, s_vpn)
      THEN [response |-> MockText("enhanced", "vpn"), type |-> "clarification",
            confidence |-> F_0_88, suggested_actions |-> enh_mock_vpn_actions,
            requires_clarification |-> TRUE, next_steps |-> enh_mock_vpn_steps,
            estimated_resolution_time |-> 25, sentiment |-> "positive"]
      ELSE IF Contains(prompt_lower, s_password)
      THEN [response |-> MockText("enhanced", "password"), type |-> "verification",
            confidence |-> F_0_92, suggested_actions |-> enh_mock_password_actions,
            requires_clarification |-> TRUE, next_steps |-> enh_mock_password_steps,
            estimated_resolution_time |-> 10, sentiment |-> "neutral"]
      ELSE [response |-> MockText("enhanced", "other"), type |-> "clarification",
            confidence |-> F_0_8, suggested_actions |-> enh_mock_other_actions,
            requires_clarification |-> TRUE, next_steps |-> enh_mock_other_steps,
            estimated_resolution_time |-> 30, sentiment |-> "positive"]

_generate_enhanced_fallback_response(prompt) ==
  [response |-> MockText("enhanced", "fallback"), type |-> "fallback",
   confidence |-> F_0_5, suggested_actions |-> enh_fallback_actions,
   requires_clarification |-> TRUE, next_steps |-> enh_fallback_steps,
   estimated_resolution_time |-> 5, sentiment |-> "neutral"]

\* What the external generator does on one call: the handler has no model
\* (no API key), the call raises, or the call returns a text.
NotConfigured == [kind |-> "not_configured"]
ProviderError == [kind |-> "error"]
Returns(t) == [kind |-> "text", text |-> t]

\* generate_enhanced_response: the set of values it can return
\* the results of _parse_enhanced_ai_response on a text, one per iteration
\* order of its set of actions; evaluated once per provider text
EnhancedParses ==
  [t \in RawTexts |-> {_parse_enhanced_ai_response(t, o) : o \in Orders(ActionSet(t))}]

generate_enhanced_response_mock_on_error(prompt, context, gen) ==
  IF gen.kind \in {"not_configured", "error"}
  THEN {_generate_enhanced_mock_response(prompt)}
  ELSE EnhancedParses[gen.text]

generate_enhanced_response(prompt, context, gen) ==
  IF gen.kind = "not_configured" THEN {_generate_enhanced_mock_response(prompt)}
  ELSE IF gen.kind = "error" THEN {_generate_enhanced_fallback_response(prompt)}
  ELSE EnhancedParses[gen.text]

(***************************************************************************)
(* SimpleLLMHandler (llm_handler_simple.py)                                *)
(***************************************************************************)
simple_generate_enhanced_response(prompt) ==
  LET prompt_lower == lower(prompt)
  IN  IF Contains(prompt_lower, s_outlook) \/ Contains(prompt_lower, s_email)
      THEN [response |-> MockText("simple", "outlook"), type |-> "clarification",
            confidence |-> F_0_85, suggested_actions |-> simple_outlook_actions,
            requires_clarification |-> TRUE, estimated_resolution_time |-> 20,
            sentiment |-> "positive"]
      ELSE IF Contains(prompt_lower, s_vpn)
      THEN [response |-> MockText("simple", "vpn"), type |-> "clarification",
            confidence |-> F_0_88, suggested_actions |-> simple_vpn_actions,
            requires_clarification |-> TRUE, estimated_resolution_time |-> 25,
            sentiment |-> "positive"]
      ELSE IF Contains(prompt_lower, s_password)
      THEN [response |-> MockText("simple", "password"), type |-> "verification",
            confidence |-> F_0_92, suggested_actions |-> simple_password_actions,
            requires_clarification |-> TRUE, estimated_resolution_time |-> 10,
            sentiment |-> "neutral"]
      ELSE IF Contains(prompt_lower, s_slow) \/ Contains(prompt_lower, s_performance)
      THEN [response |-> MockText("simple", "slow"), type |-> "clarification",
            confidence |-> F_0_8, suggested_actions |-> simple_slow_actions,
            requires_clarification |-> TRUE, estimated_resolution_time |-> 30,
            sentiment |-> "positive"]
      ELSE [response |-> MockText("simple", "other"), type |-> "clarification",
            confidence |-> F_0_75, suggested_actions |-> simple_other_actions,
            requires_clarification |-> TRUE, estimated_resolution_time |-> 30,
            sentiment |-> "positive"]

(***************************************************************************)
(* LLMHandler (llm_handler.py)                                             *)
(***************************************************************************)
\* _get_system_prompt joins kb['required_info'] with ', '.join: a TypeError
\* when a matched entry has a required_info item (the items are dicts)
BuildFullPromptRaises(context) ==
  \E i \in DOMAIN context.kb_entries : context.kb_entries[i].required_info # <<>>

\* json_match.group() of re.search(r'\{.*\}', text, re.DOTALL): from the
\* first "{" to the last "}" (<<>> when there is no match)
JsonCandidate(text) ==
  LET opens == {i \in DOMAIN text : text[i] = "{"}
      closes == {i \in DOMAIN text : text[i] = "}"}
  IN  IF opens # {} /\ closes # {} /\ SetMin(opens) < SetMax(closes)
      THEN SubSeq(text, SetMin(opens), SetMax(closes)) ELSE <<>>

\* json.loads on the candidates the model's texts contain: the one valid
\* JSON object is decoded, every other candidate is a JSONDecodeError
JsonDecodes(candidate) == candidate = json_text
json_loads(candidate) == [confidence |-> F_1_0, requires_clarification |-> TRUE]

\* set(actions) of _extract_suggested_actions
LegacyActionSet(text) == Range(ExtendAll(legacy_action_patterns, lower(text)))

_needs_clarification(text) == AnyIn(clarification_indicators, lower(text))

_extract_next_steps(text) ==
  LET sentences == split_sentences(text)
      stripped == [i \in DOMAIN sentences |-> strip(sentences[i])]
  IN  Slice(SelectSeq(stripped, LAMBDA x : Len(x) > 20), 3)

\* set_order: the order in which list(set(actions)) yields the captures
_parse_ai_response(response_text, set_order) ==
  IF JsonCandidate(response_text) # <<>> /\ JsonDecodes(JsonCandidate(response_text))
  THEN json_loads(JsonCandidate(response_text))
  ELSE [response |-> strip(response_text),
        type |-> "information",
        confidence |-> F_0_9,
        suggested_actions |-> Slice(set_order, 3),
        requires_clarification |-> _needs_clarification(response_text),
        next_steps |-> _extract_next_steps(response_text)]

_generate_mock_response(prompt) ==
  LET prompt_lower == lower(prompt)
  IN  IF Contains(prompt_lower, s_outlook)
      THEN [response |-> MockText("legacy", "outlook"), type |-> "clarification",
            confidence |-> F_0_8, suggested_actions |-> leg_mock_outlook_actions,
            requires_clarification |-> TRUE, next_steps |-> leg_mock_outlook_steps]
      ELSE IF Contains(prompt_lower, s_vpn)
      THEN [response |-> MockText("legacy", "vpn"), type |-> "clarification",
            confidence |-> F_0_85, suggested_actions |-> leg_mock_vpn_actions,
            requires_clarification |-> TRUE, next_steps |-> leg_mock_vpn_steps]
      ELSE IF Contains(prompt_lower, s_password)
      THEN [response |-> MockText("legacy", "password"), type |-> "verification",
            confidence |-> F_0_9, suggested_actions |-> leg_mock_password_actions,
            requires_clarification |-> TRUE, next_steps |-> leg_mock_password_steps]
      ELSE [response |-> MockText("legacy", "other"), type |-> "clarification",
            confidence |-> F_0_7, suggested_actions |-> <<>>,
            requires_clarification |-> TRUE, next_steps |-> leg_mock_other_steps]

_generate_fallback_response(prompt) ==
  [response |-> MockText("legacy", "fallback"), type |-> "fallback",
   confidence |-> F_0_5, suggested_actions |-> leg_fallback_actions,
   requires_clarification |-> TRUE, next_steps |-> leg_fallback_steps]

\* generate_response: the set of values it can return
\* the results of _parse_ai_response on a text; evaluated once per provider text
LegacyParses ==
  [t \in RawTexts |-> {_parse_ai_response(t, o) : o \in Orders(LegacyActionSet(t))}]

generate_response(prompt, context, gen) ==
  IF gen.kind = "not_configured" THEN {_generate_mock_response(prompt)}
  ELSE IF BuildFullPromptRaises(context) \/ gen.kind = "error"
       THEN {_generate_fallback_response(prompt)}
  ELSE LegacyParses[gen.text]

(***************************************************************************)
(* EnhancedLLMHandler: the sentiment assessment of a user message          *)
(***************************************************************************)
\* llm_handler_enhanced.py:447-450, the word lists of the sentiment tiers
adv_positive_words ==
  << <<"t","h","a","n","k","s">>,
     <<"t","h","a","n","k"," ","y","o","u">>,
     <<"g","r","e","a","t">>,
     <<"g","o","o","d">>,
     <<"w","o","r","k","i","n","g">>,
     <<"f","i","x","e","d">>,
     <<"h","e","l","p","f","u","l">> >>

adv_negative_words ==
  << <<"n","o","t"," ","w","o","r","k","i","n","g">>,
     <<"b","r","o","k","e","n">>,
     <<"f","a","i","l","e","d">>,
     <<"e","r","r","o","r">>,
     <<"i","s","s","u","e">>,
     <<"p","r","o","b","l","e","m">>,
     <<"h","e","l","p">> >>

frustrated_words ==
  << <<"a","g","a","i","n">>,
     <<"s","t","i","l","l">>,
     <<"w","a","i","t","i","n","g">>,
     <<"f","r","u","s","t","r","a","t","e","d">>,
     <<"a","n","g","r","y">>,
     <<"a","n","n","o","y","i","n","g">>,
     <<"u","s","e","l","e","s","s">> >>

urgent_words ==
  << <<"i","m","m","e","d","i","a","t","e","l","y">>,
     <<"a","s","a","p">>,
     <<"n","o","w">>,
     <<"c","r","i","t","i","c","a","l">>,
     <<"e","m","e","r","g","e","n","c","y">>,
     <<"u","r","g","e","n","t">>,
     <<"b","l","o","c","k","e","d">> >>

\* the positive words tested before the negative words
mock_advanced_sentiment_analysis_positive_first(text) ==
  LET text_lower == lower(text)
  IN  IF AnyIn(frustrated_words, text_lower)
      THEN [sentiment |-> "frustrated", sentiment_score |-> F_0_8,
            urgency_level |-> "high", urgency_score |-> F_0_8,
            key_emotions |-> <<"frustration", "impatience", "disappointment">>,
            requires_immediate_attention |-> TRUE, recommended_priority |-> "high"]
      ELSE IF AnyIn(urgent_words, text_lower)
      THEN [sentiment |-> "urgent", sentiment_score |-> F_0_9,
            urgency_level |-> "critical", urgency_score |-> F_0_95,
            key_emotions |-> <<"urgency", "concern", "anxiety">>,
            requires_immediate_attention |-> TRUE, recommended_priority |-> "critical"]
      ELSE IF AnyIn(adv_positive_words, text_lower)
      THEN [sentiment |-> "positive", sentiment_score |-> F_0_8,
            urgency_level |-> "low", urgency_score |-> F_0_3,
            key_emotions |-> <<"satisfaction", "gratitude", "relief">>,
            requires_immediate_attention |-> FALSE, recommended_priority |-> "medium"]
      ELSE IF AnyIn(adv_negative_words, text_lower)
      THEN [sentiment |-> "negative", sentiment_score |-> F_0_7,
            urgency_level |-> "medium", urgency_score |-> F_0_6,
            key_emotions |-> <<"concern", "confusion", "frustration">>,
            requires_immediate_attention |-> FALSE, recommended_priority |-> "medium"]
      ELSE [sentiment |-> "neutral", sentiment_score |-> F_0_5,
            urgency_level |-> "low", urgency_score |-> F_0_3,
            key_emotions |-> <<>>,
            requires_immediate_attention |-> FALSE, recommended_priority |-> "medium"]

\* the defaults, overwritten by the branch of the first tier whose words occur
_mock_advanced_sentiment_analysis(text) ==
  LET text_lower == lower(text)
  IN  IF AnyIn(frustrated_words, text_lower)
      THEN [sentiment |-> "frustrated", sentiment_score |-> F_0_8,
            urgency_level |-> "high", urgency_score |-> F_0_8,
            key_emotions |-> <<"frustration", "impatience", "disappointment">>,
            requires_immediate_attention |-> TRUE, recommended_priority |-> "high"]
      ELSE IF AnyIn(urgent_words, text_lower)
      THEN [sentiment |-> "urgent", sentiment_score |-> F_0_9,
            urgency_level |-> "critical", urgency_score |-> F_0_95,
            key_emotions |-> <<"urgency", "concern", "anxiety">>,
            requires_immediate_attention |-> TRUE, recommended_priority |-> "critical"]
      ELSE IF AnyIn(adv_negative_words, text_lower)
      THEN [sentiment |-> "negative", sentiment_score |-> F_0_7,
            urgency_level |-> "medium", urgency_score |-> F_0_6,
            key_emotions |-> <<"concern", "confusion", "frustration">>,
            requires_immediate_attention |-> FALSE, recommended_priority |-> "medium"]
      ELSE IF AnyIn(adv_positive_words, text_lower)
      THEN [sentiment |-> "positive", sentiment_score |-> F_0_8,
            urgency_level |-> "low", urgency_score |-> F_0_3,
            key_emotions |-> <<"satisfaction", "gratitude", "relief">>,
            requires_immediate_attention |-> FALSE, recommended_priority |-> "medium"]
      ELSE [sentiment |-> "neutral", sentiment_score |-> F_0_5,
            urgency_level |-> "low", urgency_score |-> F_0_3,
            key_emotions |-> <<>>,
            requires_immediate_attention |-> FALSE, recommended_priority |-> "medium"]

\* json.loads(response.text.strip()) of the provider's answer, or the
\* rule-based assessment when there is no provider, the call fails or the
\* answer is not JSON
analyze_advanced_sentiment(text, gen) ==
  IF gen.kind \in {"not_configured", "error"}
  THEN _mock_advanced_sentiment_analysis(text)
  ELSE IF JsonDecodes(strip(gen.text))
  THEN json_loads(strip(gen.text))
  ELSE _mock_advanced_sentiment_analysis(text)

SentimentPath(gen) ==
  IF gen.kind = "text" /\ JsonDecodes(strip(gen.text)) THEN "provider" ELSE "mock"

(***************************************************************************)
(* EnhancedLLMHandler: the prompt sent to the provider                     *)
(***************************************************************************)
\* the fixed text returned by _get_enhanced_system_prompt, as one token
enh_system_prompt == <<"<enhanced system prompt>">>

h_user_context == <<"\n","\n","#","#"," ","U","s","e","r"," ","C","o","n","t","e","x","t",":","\n">>
h_knowledge_base == <<"\n","\n","#","#"," ","R","e","l","e","v","a","n","t"," ","K","n","o","w","l","e","d","g","e"," ","B","a","s","e",":","\n">>
h_conversation_history == <<"\n","\n","#","#"," ","C","o","n","v","e","r","s","a","t","i","o","n"," ","H","i","s","t","o","r","y",":","\n">>
h_current_query == <<"\n","\n","#","#"," ","C","u","r","r","e","n","t"," ","U","s","e","r"," ","Q","u","e","r","y",":","\n">>
h_assistant_response == <<"\n","\n","#","#"," ","A","s","s","i","s","t","a","n","t"," ","R","e","s","p","o","n","s","e",":","\n">>
s_dash_Name == <<"-"," ","N","a","m","e",":"," ">>
s_dash_Department == <<"\n","-"," ","D","e","p","a","r","t","m","e","n","t",":"," ">>
s_dash_Role == <<"\n","-"," ","R","o","l","e",":"," ">>
s_Required == <<"\n"," "," "," ","R","e","q","u","i","r","e","d",":"," ">>
s_User == <<"U","s","e","r">>
s_Unknown == <<"U","n","k","n","o","w","n">>
s_Assistant == <<"A","s","s","i","s","t","a","n","t">>
s_Demo_User == <<"D","e","m","o"," ","U","s","e","r">>
s_IT == <<"I","T">>

DigitChars == <<"0","1","2","3","4","5","6","7","8","9">>

\* str(n) of a non-negative int
RECURSIVE str_int(_)
str_int(n) ==
  IF n < 10 THEN <<DigitChars[n + 1]>>
  ELSE str_int(n \div 10) \o <<DigitChars[(n % 10) + 1]>>

\* sep.join(items)
join(sep, items) ==
  LET Loop[i \in 0..Len(items)] ==
        IF i = 0 THEN <<>>
        ELSE IF i = 1 THEN items[1]
        ELSE Loop[i - 1] \o sep \o items[i]
  IN  Loop[Len(items)]

\* seq[-n:]
LastN(seq, n) == SubSeq(seq, IF Len(seq) > n THEN Len(seq) - n + 1 ELSE 1, Len(seq))

\* `context and context.get(key)`: None, {} and a missing, empty or None value
\* are all false
ContextHas(context, key) == key \in DOMAIN context /\ context[key] # <<>>

\* info.get('field', ''): a field name is one token of the text
FieldText(info) == IF "field" \in DOMAIN info THEN <<info.field>> ELSE <<>>

\* the history rendered from the last 5 messages, as _build_full_prompt does
build_enhanced_prompt_last5(prompt, context) ==
  LET conversation_context ==
        IF ContextHas(context, "conversation_history")
        THEN LET msgs == LastN(context.conversation_history, 5)
             IN  h_conversation_history \o
                 join(<<"\n">>,
                      [i \in DOMAIN msgs |->
                         (IF msgs[i].type = "user" THEN s_User ELSE s_Assistant)
                         \o <<":", " ">> \o msgs[i].content])
        ELSE <<>>
      user_context ==
        IF ContextHas(context, "user_data")
        THEN LET user == context.user_data
             IN  h_user_context \o s_dash_Name \o Get(user, "full_name", s_User)
                 \o s_dash_Department \o Get(user, "department", s_Unknown)
                 \o s_dash_Role \o Get(user, "role", s_User)
        ELSE <<>>
      kb_context ==
        IF ContextHas(context, "kb_entries")
        THEN LET kbs == Slice(context.kb_entries, KbPromptLimit)
                 Loop[i \in 0..Len(kbs)] ==
                   IF i = 0 THEN h_knowledge_base
                   ELSE Loop[i - 1] \o <<"\n">> \o str_int(i) \o <<".", " ">>
                        \o kbs[i].use_case \o s_Required
                        \o join(<<",", " ">>,
                                [k \in DOMAIN kbs[i].required_info |->
                                   FieldText(kbs[i].required_info[k])])
                        \o <<"\n">>
             IN  Loop[Len(kbs)]
        ELSE <<>>
  IN  enh_system_prompt \o user_context \o kb_context \o conversation_context
      \o h_current_query \o prompt \o h_assistant_response

_build_enhanced_prompt(prompt, context) ==
  LET conversation_context ==
        IF ContextHas(context, "conversation_history")
        THEN LET msgs == LastN(context.conversation_history, PromptHistoryLimit)
             IN  h_conversation_history \o
                 join(<<"\n">>,
                      [i \in DOMAIN msgs |->
                         (IF msgs[i].type = "user" THEN s_User ELSE s_Assistant)
                         \o <<":", " ">> \o msgs[i].content])
        ELSE <<>>
      user_context ==
        IF ContextHas(context, "user_data")
        THEN LET user == context.user_data
             IN  h_user_context \o s_dash_Name \o Get(user, "full_name", s_User)
                 \o s_dash_Department \o Get(user, "department", s_Unknown)
                 \o s_dash_Role \o Get(user, "role", s_User)
        ELSE <<>>
      kb_context ==
        IF ContextHas(context, "kb_entries")
        THEN LET kbs == Slice(context.kb_entries, KbPromptLimit)
                 Loop[i \in 0..Len(kbs)] ==
                   IF i = 0 THEN h_knowledge_base
                   ELSE Loop[i - 1] \o <<"\n">> \o str_int(i) \o <<".", " ">>
                        \o kbs[i].use_case \o s_Required
                        \o join(<<",", " ">>,
                                [k \in DOMAIN kbs[i].required_info |->
                                   FieldText(kbs[i].required_info[k])])
                        \o <<"\n">>
             IN  Loop[Len(kbs)]
        ELSE <<>>
  IN  enh_system_prompt \o user_context \o kb_context \o conversation_context
      \o h_current_query \o prompt \o h_assistant_response

\* the messages of a conversation, oldest first: the welcome message, then
\* user and bot messages
HistoryPool ==
  [i \in 1..MaxHistory |->
     [type |-> IF i % 2 = 1 THEN "bot" ELSE "user", content |-> <<"m">> \o str_int(i)]]

PromptHistories ==
  {<<>>} \cup {SubSeq(HistoryPool, i, j) : i \in 1..MaxHistory, j \in 1..MaxHistory}

PromptKbPool ==
  [i \in 1..6 |->
     CHOOSE e \in EntryPool : e.kb_id = <<"KB001", "KB002", "KB003", "KB004", "KB005", "KB006">>[i]]

PromptKbEntries == {SubSeq(PromptKbPool, 1, n) : n \in 0..(MaxCatalog + 1)}

\* user_data of ChatService.send_message, a partial and an empty profile
PromptUserData ==
  { <<>>,
    [full_name |-> s_Demo_User, department |-> s_IT, role |-> s_User],
    [full_name |-> s_Demo_User] }

\* None or {}
NoContext == <<>>

PromptContexts ==
  {NoContext}
  \cup {[conversation_history |-> h, kb_entries |-> k] :
          h \in PromptHistories, k \in PromptKbEntries}
  \cup {[conversation_history |-> h, kb_entries |-> k, user_data |-> u] :
          h \in PromptHistories, k \in PromptKbEntries, u \in PromptUserData}

IncidentsIdle ==
  /\ incidents = <<>>
  /\ today = 1
  /\ i_calls = 0
  /\ i_last = [op |-> "none"]

PromptIdle ==
  /\ b_prompt = <<>>
  /\ b_context = <<>>
  /\ b_result = <<>>
  /\ b_pc = "idle"

InitPrompt ==
  /\ MatchIdle
  /\ GenIdle
  /\ started = FALSE /\ api_configured = FALSE /\ knowledge_base = <<>>
  /\ chat_sessions = <<>> /\ chat_messages = <<>> /\ last = [op |-> "none"]
  /\ server = "none" /\ requests = <<>> /\ running = 0
  /\ b_prompt \in {p_hi, p_vpn}
  /\ b_context \in PromptContexts
  /\ b_result = <<>>
  /\ b_pc = "call"
  /\ incidents = <<>>
  /\ today = 1
  /\ i_calls = 0
  /\ i_last = [op |-> "none"]

BuildEnhancedPrompt ==
  /\ b_pc = "call"
  /\ b_result' = _build_enhanced_prompt(b_prompt, b_context)
  /\ b_pc' = "done"
  /\ UNCHANGED <<b_prompt, b_context, m_vars, g_vars, s_vars, r_vars, i_vars>>

NextPrompt == BuildEnhancedPrompt

SpecPrompt == InitPrompt /\ [][NextPrompt]_vars

(***************************************************************************)
(* The response generators as functions of (prompt, context, generator)    *)
(***************************************************************************)
Prompts ==
  { p_outlook, p_vpn, p_password, p_email_slow, p_hi, s_slow, p_password_vpn,
    p_pw_vpn_outlook, p_still_broken, p_urgent_problem, p_thanks_error,
    p_thanks_great, p_i_know }

GenOutcomes == {NotConfigured, ProviderError} \cup {Returns(t) : t \in RawTexts}

\* the context a chat handler passes: the matches of the prompt in the catalog
Context(prompt, kb) == [kb_entries |-> find_matching_kb_entries(prompt, kb, DefaultLimit)]

\* branch of generate_response / generate_enhanced_response that produces the value
LegacyPath(context, gen) ==
  IF gen.kind = "not_configured" THEN "mock"
  ELSE IF BuildFullPromptRaises(context) \/ gen.kind = "error" THEN "fallback"
  ELSE "normalizer"

EnhancedPath(gen) ==
  IF gen.kind = "not_configured" THEN "mock"
  ELSE IF gen.kind = "error" THEN "fallback"
  ELSE "normalizer"

InitGen ==
  /\ MatchIdle
  /\ ServersIdle
  /\ g_prompt \in Prompts
  /\ g_kb \in {<<>>, initial_kb_data}
  /\ g_gen \in GenOutcomes
  /\ g_handler = "none"
  /\ g_path = "none"
  /\ g_response = <<>>

GenerateResponse ==
  /\ g_handler = "none"
  /\ g_handler' = "legacy"
  /\ \E context \in {Context(g_prompt, g_kb)} :
       /\ g_path' = LegacyPath(context, g_gen)
       /\ g_response' \in generate_response(g_prompt, context, g_gen)
  /\ UNCHANGED <<g_prompt, g_kb, g_gen, m_vars, s_vars, r_vars, b_vars, i_vars>>

GenerateEnhancedResponse ==
  /\ g_handler = "none"
  /\ g_handler' = "enhanced"
  /\ g_path' = EnhancedPath(g_gen)
  /\ \E context \in {Context(g_prompt, g_kb)} :
       g_response' \in generate_enhanced_response(g_prompt, context, g_gen)
  /\ UNCHANGED <<g_prompt, g_kb, g_gen, m_vars, s_vars, r_vars, b_vars, i_vars>>

SimpleGenerateEnhancedResponse ==
  /\ g_handler = "none"
  /\ g_handler' = "simple"
  /\ g_path' = "mock"
  /\ g_response' = simple_generate_enhanced_response(g_prompt)
  /\ UNCHANGED <<g_prompt, g_kb, g_gen, m_vars, s_vars, r_vars, b_vars, i_vars>>

AnalyzeAdvancedSentiment ==
  /\ g_handler = "none"
  /\ g_handler' = "sentiment"
  /\ g_path' = SentimentPath(g_gen)
  /\ g_response' = analyze_advanced_sentiment(g_prompt, g_gen)
  /\ UNCHANGED <<g_prompt, g_kb, g_gen, m_vars, s_vars, r_vars, b_vars, i_vars>>

NextGen ==
  \/ GenerateResponse
  \/ GenerateEnhancedResponse
  \/ SimpleGenerateEnhancedResponse
  \/ AnalyzeAdvancedSentiment

SpecGen == InitGen /\ [][NextGen]_vars

(***************************************************************************)
(* The chat servers over the shared database                               *)
(*                                                                         *)
(* main.py, main_enhanced.py, main_enhanced_fixed.py and main_simple.py    *)
(* serve the same tables.  Every handler is an `async def` without an      *)
(* await, so a request runs from its first statement to its response       *)
(* without another request of the process in between.                      *)
(***************************************************************************)
None == "None"

\* message_data without a "content" key
NoContent == "NoContent"

p_outlook_padded == <<" ", " ">> \o p_outlook \o <<" ">>

ContentInputs == {NoContent, p_blank, p_outlook_padded, p_hi}

SessionIds == 1..MaxSessions

\* generator outcomes of one call, given whether the API key is configured
TurnOutcomes(configured) ==
  IF configured THEN {ProviderError, Returns(t_ok), Returns(t_which)}
  ELSE {NotConfigured}

\* message_data.get("content", "").strip()
StripContent(message_data) ==
  IF message_data = NoContent THEN <<>> ELSE strip(message_data)

\* inserts the default entries whatever the table holds
initialize_knowledge_base_always(rows) == initial_kb_data

initialize_knowledge_base(rows) ==
  IF Len(rows) > 0 THEN rows ELSE initial_kb_data

\* ChatSession(current_step="initial", collected_data={}, status="active")
\* collected_data is a dict (a function of its keys); the nullable JSON column
\* missing_info is <<>> when NULL and <<list>> otherwise
NewChatSession ==
  [current_step |-> "initial", collected_data |-> <<>>, missing_info |-> <<>>,
   status |-> "active"]

\* placeholders of a reply that has no session or no response to show
NoSession ==
  [current_step |-> None, collected_data |-> <<>>, missing_info |-> <<>>, status |-> None]

NoResponse == <<>>

WelcomeMessage(app) ==
  [message_type |-> "bot",
   content |-> MockText(app, "welcome"),
   message_metadata |-> [type |-> "welcome", confidence |-> F_1_0]]

UserMessage(user_message) ==
  [message_type |-> "user", content |-> user_message, message_metadata |-> None]

KbIds(kb_matches) == [i \in DOMAIN kb_matches |-> kb_matches[i].kb_id]

default_error_text == MockText("handler", "I apologize, but I encountered an error.")

\* bot_msg of main.py
BotMessage(ai_response, kb_matches) ==
  [message_type |-> "bot",
   content |-> Get(ai_response, "response", default_error_text),
   message_metadata |->
     [type |-> Get(ai_response, "type", "information"),
      confidence |-> Get(ai_response, "confidence", F_0_7),
      suggested_actions |-> Get(ai_response, "suggested_actions", <<>>),
      requires_clarification |-> Get(ai_response, "requires_clarification", FALSE),
      next_steps |-> Get(ai_response, "next_steps", <<>>),
      kb_matches |-> KbIds(kb_matches)]]

\* bot_msg of main_enhanced.py
EnhancedBotMessage(ai_response, kb_matches) ==
  [message_type |-> "bot",
   content |-> Get(ai_response, "response", default_error_text),
   message_metadata |->
     [type |-> Get(ai_response, "type", "information"),
      confidence |-> Get(ai_response, "confidence", F_0_7),
      suggested_actions |-> Get(ai_response, "suggested_actions", <<>>),
      requires_clarification |-> Get(ai_response, "requires_clarification", FALSE),
      next_steps |-> Get(ai_response, "next_steps", <<>>),
      estimated_resolution_time |-> Get(ai_response, "estimated_resolution_time", 30),
      sentiment |-> Get(ai_response, "sentiment", "neutral"),
      kb_matches |-> KbIds(kb_matches),
      enhanced_features |-> TRUE]]

\* bot_msg of ChatService.send_message
ServiceBotMessage(ai_response) ==
  [message_type |-> "bot",
   content |-> Get(ai_response, "response", default_error_text),
   message_metadata |->
     [type |-> Get(ai_response, "type", "information"),
      confidence |-> Get(ai_response, "confidence", F_0_7),
      suggested_actions |-> Get(ai_response, "suggested_actions", <<>>),
      requires_clarification |-> Get(ai_response, "requires_clarification", FALSE),
      estimated_resolution_time |-> Get(ai_response, "estimated_resolution_time", 30),
      enhanced_features |-> TRUE]]

\* bot_msg of main_simple.py
SimpleBotMessage(ai_response) ==
  [message_type |-> "bot",
   content |-> Get(ai_response, "response", default_error_text),
   message_metadata |->
     [type |-> Get(ai_response, "type", "information"),
      confidence |-> Get(ai_response, "confidence", F_0_7),
      suggested_actions |-> Get(ai_response, "suggested_actions", <<>>),
      estimated_resolution_time |-> Get(ai_response, "estimated_resolution_time", 30)]]

\* what the caller of the last request got, with what the handler had
\* computed when it answered
Reply(op, session_id, message_data, existed, before, kb_matches, ai_response, code, success) ==
  [op |-> op, session_id |-> session_id, message_data |-> message_data,
   existed |-> existed, before |-> before, kb_matches |-> kb_matches,
   ai_response |-> ai_response, status_code |-> code, success |-> success]

SessionExists(session_id) == session_id <= Len(chat_sessions)

\* a turn that stores its two messages needs room for them
HasRoom(session_id, message_data) ==
  (SessionExists(session_id) /\ StripContent(message_data) # <<>>) =>
     Len(chat_messages[session_id]) + 2 <= MaxMessages

\* the knowledge_base table of the database file before the first startup:
\* a new file, or one that already holds an entry
ExistingCatalogs == {<<>>, <<PromptKbPool[3]>>}

Init ==
  /\ MatchIdle
  /\ GenIdle
  /\ started = FALSE
  /\ api_configured \in BOOLEAN
  /\ knowledge_base \in ExistingCatalogs
  /\ chat_sessions = <<>>
  /\ chat_messages = [s \in SessionIds |-> <<>>]
  /\ last = [op |-> "none"]
  /\ server = "none"
  /\ requests = <<>>
  /\ running = 0
  /\ b_prompt = <<>>
  /\ b_context = <<>>
  /\ b_result = <<>>
  /\ b_pc = "idle"
  /\ incidents = <<>>
  /\ today = 1
  /\ i_calls = 0
  /\ i_last = [op |-> "none"]

\* startup_event of every server; a server may be started again on the
\* database file it left
Startup ==
  /\ started' = TRUE
  /\ knowledge_base' = initialize_knowledge_base(knowledge_base)
  /\ UNCHANGED <<api_configured, chat_sessions, chat_messages, last, m_vars, g_vars, r_vars, b_vars, i_vars>>

\* POST /chat/sessions of main.py, of main_enhanced_fixed.py
\* (ChatService.create_session) and of main_simple.py: the same rows, but for
\* the text of the welcome message
SessionCreators == {"main", "main_enhanced_fixed", "main_simple"}

CreateChatSession ==
  /\ started
  /\ Len(chat_sessions) < MaxSessions
  /\ \E app \in SessionCreators, session_id \in {Len(chat_sessions) + 1} :
       /\ chat_sessions' = Append(chat_sessions, NewChatSession)
       /\ chat_messages' = [chat_messages EXCEPT ![session_id] = <<WelcomeMessage(app)>>]
       /\ last' = Reply("create_chat_session/" \o app, session_id, None, FALSE, NoSession,
                        <<>>, NoResponse, 200, TRUE)
  /\ UNCHANGED <<started, api_configured, knowledge_base, m_vars, g_vars, r_vars, b_vars, i_vars>>

\* The handler bodies of main.py and main_enhanced.py.  KBProcessor defines
\* initialize_knowledge_base, find_matching_kb_entries and _calculate_match_score
\* only: evaluating kb_processor._get_missing_fields raises AttributeError after
\* current_step and collected_data were assigned on the loaded object,
\* `except Exception` rolls the transaction back (the pending user message and
\* the assignments with it) and answers 500.
\* db_error: a statement sent to the database raises (the file is locked or
\* cannot be written); the same `except Exception` rolls back and answers 500.
TurnResponses(variant, user_message, context, gen) ==
  IF variant = "main" THEN generate_response(user_message, context, gen)
  ELSE generate_enhanced_response(user_message, context, gen)

TurnBotMessage(variant, ai_response, kb_matches) ==
  IF variant = "main" THEN BotMessage(ai_response, kb_matches)
  ELSE EnhancedBotMessage(ai_response, kb_matches)

\* the handler with the user message committed before the response is
\* generated, as ChatService.send_message does
TurnWithSessionUpdate_commit_first(variant, op, session_id, message_data, gen) ==
  \E user_message \in {StripContent(message_data)}, db_error \in BOOLEAN :
    IF ~SessionExists(session_id)
    THEN /\ last' = Reply(op, session_id, message_data, FALSE, NoSession, <<>>, NoResponse,
                          404, FALSE)
         /\ UNCHANGED <<chat_sessions, chat_messages>>
    ELSE IF user_message = <<>>
    THEN /\ last' = Reply(op, session_id, message_data, TRUE, chat_sessions[session_id],
                          <<>>, NoResponse, 400, FALSE)
         /\ UNCHANGED <<chat_sessions, chat_messages>>
    ELSE IF db_error
    THEN /\ last' = Reply(op, session_id, message_data, TRUE, chat_sessions[session_id],
                          <<>>, NoResponse, 500, FALSE)
         /\ UNCHANGED <<chat_sessions, chat_messages>>
    ELSE \E session \in {chat_sessions[session_id]},
            kb_matches \in {find_matching_kb_entries(user_message, knowledge_base, DefaultLimit)} :
          \E context \in {[kb_entries |-> kb_matches]} :
           \E ai_response \in TurnResponses(variant, user_message, context, gen) :
             IF kb_matches # <<>> /\ Get(ai_response, "requires_clarification", FALSE)
             THEN /\ last' = Reply(op, session_id, message_data, TRUE, session,
                                   kb_matches, ai_response, 500, FALSE)
                  /\ chat_messages' =
                       [chat_messages EXCEPT ![session_id] = Append(@, UserMessage(user_message))]
                  /\ UNCHANGED chat_sessions
             ELSE /\ chat_messages' =
                       [chat_messages EXCEPT ![session_id] =
                          @ \o <<UserMessage(user_message),
                                 TurnBotMessage(variant, ai_response, kb_matches)>>]
                  /\ last' = Reply(op, session_id, message_data, TRUE, session,
                                   kb_matches, ai_response, 200, TRUE)
                  /\ UNCHANGED chat_sessions

\* the handler with the session update applied on every stored turn
TurnWithSessionUpdate_unguarded(variant, op, session_id, message_data, gen) ==
  \E user_message \in {StripContent(message_data)}, db_error \in BOOLEAN :
    IF ~SessionExists(session_id)
    THEN /\ last' = Reply(op, session_id, message_data, FALSE, NoSession, <<>>, NoResponse,
                          404, FALSE)
         /\ UNCHANGED <<chat_sessions, chat_messages>>
    ELSE IF user_message = <<>>
    THEN /\ last' = Reply(op, session_id, message_data, TRUE, chat_sessions[session_id],
                          <<>>, NoResponse, 400, FALSE)
         /\ UNCHANGED <<chat_sessions, chat_messages>>
    ELSE IF db_error
    THEN /\ last' = Reply(op, session_id, message_data, TRUE, chat_sessions[session_id],
                          <<>>, NoResponse, 500, FALSE)
         /\ UNCHANGED <<chat_sessions, chat_messages>>
    ELSE \E session \in {chat_sessions[session_id]},
            kb_matches \in {find_matching_kb_entries(user_message, knowledge_base, DefaultLimit)} :
          \E context \in {[kb_entries |-> kb_matches]} :
           \E ai_response \in TurnResponses(variant, user_message, context, gen) :
             IF kb_matches # <<>> /\ Get(ai_response, "requires_clarification", FALSE)
             THEN /\ last' = Reply(op, session_id, message_data, TRUE, session,
                                   kb_matches, ai_response, 500, FALSE)
                  /\ UNCHANGED <<chat_sessions, chat_messages>>
             ELSE /\ chat_messages' =
                       [chat_messages EXCEPT ![session_id] =
                          @ \o <<UserMessage(user_message),
                                 TurnBotMessage(variant, ai_response, kb_matches)>>]
                  /\ last' = Reply(op, session_id, message_data, TRUE, session,
                                   kb_matches, ai_response, 200, TRUE)
                  /\ chat_sessions' =
                       [chat_sessions EXCEPT
                          ![session_id].current_step = "collecting_info",
                          ![session_id].collected_data = [initial_issue |-> user_message]]

TurnWithSessionUpdate(variant, op, session_id, message_data, gen) ==
  \E user_message \in {StripContent(message_data)}, db_error \in BOOLEAN :
    IF ~SessionExists(session_id)
    THEN /\ last' = Reply(op, session_id, message_data, FALSE, NoSession, <<>>, NoResponse,
                          404, FALSE)
         /\ UNCHANGED <<chat_sessions, chat_messages>>
    ELSE IF user_message = <<>>
    THEN /\ last' = Reply(op, session_id, message_data, TRUE, chat_sessions[session_id],
                          <<>>, NoResponse, 400, FALSE)
         /\ UNCHANGED <<chat_sessions, chat_messages>>
    ELSE IF db_error
    THEN /\ last' = Reply(op, session_id, message_data, TRUE, chat_sessions[session_id],
                          <<>>, NoResponse, 500, FALSE)
         /\ UNCHANGED <<chat_sessions, chat_messages>>
    ELSE \E session \in {chat_sessions[session_id]},
            kb_matches \in {find_matching_kb_entries(user_message, knowledge_base, DefaultLimit)} :
          \E context \in {[kb_entries |-> kb_matches]} :
           \E ai_response \in TurnResponses(variant, user_message, context, gen) :
             IF kb_matches # <<>> /\ Get(ai_response, "requires_clarification", FALSE)
             THEN /\ last' = Reply(op, session_id, message_data, TRUE, session,
                                   kb_matches, ai_response, 500, FALSE)
                  /\ UNCHANGED <<chat_sessions, chat_messages>>
             ELSE /\ chat_messages' =
                       [chat_messages EXCEPT ![session_id] =
                          @ \o <<UserMessage(user_message),
                                 TurnBotMessage(variant, ai_response, kb_matches)>>]
                  /\ last' = Reply(op, session_id, message_data, TRUE, session,
                                   kb_matches, ai_response, 200, TRUE)
                  /\ UNCHANGED chat_sessions

\* POST /chat/sessions/{session_id}/messages of main.py
SendChatMessage ==
  /\ started
  /\ \E session_id \in SessionIds, message_data \in ContentInputs,
        gen \in TurnOutcomes(api_configured) :
       /\ HasRoom(session_id, message_data)
       /\ TurnWithSessionUpdate("main", "send_chat_message/main", session_id,
                                message_data, gen)
  /\ UNCHANGED <<started, api_configured, knowledge_base, m_vars, g_vars, r_vars, b_vars, i_vars>>

\* POST /chat/sessions/{session_id}/messages/enhanced of main_enhanced.py
SendEnhancedChatMessage ==
  /\ started
  /\ \E session_id \in SessionIds, message_data \in ContentInputs,
        gen \in TurnOutcomes(api_configured) :
       /\ HasRoom(session_id, message_data)
       /\ TurnWithSessionUpdate("main_enhanced", "send_enhanced_chat_message/main_enhanced",
                                session_id, message_data, gen)
  /\ UNCHANGED <<started, api_configured, knowledge_base, m_vars, g_vars, r_vars, b_vars, i_vars>>

\* where a statement sent to the database raises in ChatService.send_message:
\* nowhere, at the commit of the user message, or later (the history query
\* or the commit of the bot message).  The user message committed at line 80
\* is not undone by the db.rollback() of the except clause.
DbOutcomes == {"none", "first_commit", "after_first_commit"}

\* ChatService.send_message: the result dict and the tables after the call
ServiceSendMessageResult(op, session_id, message_data, user_message, gen) ==
 \E db_error \in DbOutcomes :
  IF ~SessionExists(session_id)
  THEN /\ last' = Reply(op, session_id, message_data, FALSE, NoSession, <<>>, NoResponse,
                        500, FALSE)
       /\ UNCHANGED <<chat_sessions, chat_messages>>
  ELSE IF db_error = "first_commit"
  THEN /\ last' = Reply(op, session_id, message_data, TRUE, chat_sessions[session_id],
                        <<>>, NoResponse, 500, FALSE)
       /\ UNCHANGED <<chat_sessions, chat_messages>>
  ELSE IF db_error = "after_first_commit"
  THEN /\ chat_messages' =
            [chat_messages EXCEPT ![session_id] = Append(@, UserMessage(user_message))]
       /\ last' = Reply(op, session_id, message_data, TRUE, chat_sessions[session_id],
                        <<>>, NoResponse, 500, FALSE)
       /\ UNCHANGED chat_sessions
  ELSE \E session \in {chat_sessions[session_id]},
          kb_matches \in {find_matching_kb_entries(user_message, knowledge_base, DefaultLimit)} :
        \E context \in {[kb_entries |-> kb_matches]} :
         \E ai_response \in generate_enhanced_response(user_message, context, gen) :
           /\ chat_messages' =
                [chat_messages EXCEPT ![session_id] =
                   @ \o <<UserMessage(user_message), ServiceBotMessage(ai_response)>>]
           /\ last' = Reply(op, session_id, message_data, TRUE, session,
                            kb_matches, ai_response, 200, TRUE)
           /\ UNCHANGED chat_sessions

\* POST /chat/sessions/{session_id}/messages of main_enhanced_fixed.py
ServiceSendChatMessage ==
  /\ started
  /\ \E session_id \in SessionIds, message_data \in ContentInputs,
        gen \in TurnOutcomes(api_configured) :
       /\ HasRoom(session_id, message_data)
       /\ \E op \in {"send_chat_message/main_enhanced_fixed"},
             user_message \in {StripContent(message_data)} :
            IF user_message = <<>>
            THEN /\ last' = Reply(op, session_id, message_data, SessionExists(session_id),
                                  IF SessionExists(session_id)
                                  THEN chat_sessions[session_id] ELSE NoSession,
                                  <<>>, NoResponse, 400, FALSE)
                 /\ UNCHANGED <<chat_sessions, chat_messages>>
            ELSE ServiceSendMessageResult(op, session_id, message_data, user_message, gen)
  /\ UNCHANGED <<started, api_configured, knowledge_base, m_vars, g_vars, r_vars, b_vars, i_vars>>

\* POST /chat/sessions/{session_id}/messages of main_simple.py: every outcome
\* is a 200 response, failures carry success = false
SimpleSendChatMessage ==
  /\ started
  /\ \E session_id \in SessionIds, message_data \in ContentInputs :
       /\ HasRoom(session_id, message_data)
       /\ \E op \in {"send_chat_message/main_simple"},
             user_message \in {StripContent(message_data)},
             existed \in {SessionExists(session_id)} :
           \E before \in {IF existed THEN chat_sessions[session_id] ELSE NoSession} :
            IF user_message = <<>> \/ ~existed
            THEN /\ last' = Reply(op, session_id, message_data, existed, before,
                                  <<>>, NoResponse, 200, FALSE)
                 /\ UNCHANGED <<chat_sessions, chat_messages>>
            ELSE \E ai_response \in {simple_generate_enhanced_response(user_message)} :
                   /\ chat_messages' =
                        [chat_messages EXCEPT ![session_id] =
                           @ \o <<UserMessage(user_message), SimpleBotMessage(ai_response)>>]
                   /\ last' = Reply(op, session_id, message_data, TRUE, before,
                                    <<>>, ai_response, 200, TRUE)
                   /\ UNCHANGED chat_sessions
  /\ UNCHANGED <<started, api_configured, knowledge_base, m_vars, g_vars, r_vars, b_vars, i_vars>>

Next ==
  \/ Startup
  \/ CreateChatSession
  \/ SendChatMessage
  \/ SendEnhancedChatMessage
  \/ ServiceSendChatMessage
  \/ SimpleSendChatMessage

Spec == Init /\ [][Next]_vars

(***************************************************************************)
(* Concurrent requests to one server process                               *)
(*                                                                         *)
(* uvicorn runs one process with one event loop.  The turn handlers are    *)
(* `async def` functions whose bodies hold no await, and the provider call *)
(* (model.generate_content) is synchronous: a handler keeps the event loop *)
(* from its first statement to its return, and requests that arrive        *)
(* meanwhile wait.  A turn is taken in two steps, split at the provider    *)
(* call, so that the rows a turn has committed before its answer exists    *)
(* are states of the model.  Every row of chat_messages carries its        *)
(* session_id column and the request that inserted it.                     *)
(***************************************************************************)
TurnIds == 1..MaxTurns

\* the session ids the clients use; both sessions exist
TurnSessions == {1, 2}

TurnApps == {"main", "main_enhanced_fixed"}

TurnContents == {p_outlook_padded, p_hi}

NoRequest ==
  [pc |-> "none", session_id |-> 0, message_data |-> NoContent, history |-> <<>>,
   gen |-> [kind |-> "none"], kb_matches |-> <<>>, ai_response |-> NoResponse,
   status_code |-> 0]

\* ChatMessage(session_id=session_id, ...) as inserted by a request
MessageRow(session_id, request, message) ==
  [session_id |-> session_id, request |-> request, message |-> message]

\* every row of the table, session after session
AllRows(messages) ==
  LET ids == DOMAIN messages
      Loop[i \in 0..Cardinality(ids)] ==
        IF i = 0 THEN <<>> ELSE Loop[i - 1] \o messages[i]
  IN  Loop[Cardinality(ids)]

\* _get_conversation_history without the filter on session_id
get_conversation_history_unfiltered(session_id, messages) ==
  LET rows == AllRows(messages)
  IN  SubSeq(rows, IF Len(rows) > HistoryLimit THEN Len(rows) - HistoryLimit + 1 ELSE 1,
             Len(rows))

\* the last `limit` rows of the session by timestamp, oldest first
_get_conversation_history(session_id, messages) ==
  LET rows == messages[session_id]
  IN  SubSeq(rows, IF Len(rows) > HistoryLimit THEN Len(rows) - HistoryLimit + 1 ELSE 1,
             Len(rows))

\* handlers run in the thread pool (`def` handlers): no request waits
EventLoopIdle_threadpool == TRUE

\* no handler is running on the event loop
EventLoopIdle == running = 0

InitTurns ==
  /\ MatchIdle
  /\ GenIdle
  /\ started = TRUE
  /\ api_configured \in BOOLEAN
  /\ knowledge_base = initialize_knowledge_base(<<>>)
  /\ server \in TurnApps
  /\ chat_sessions = [s \in TurnSessions |-> NewChatSession]
  /\ chat_messages = [s \in TurnSessions |-> <<MessageRow(s, 0, WelcomeMessage(server))>>]
  /\ last = [op |-> "none"]
  /\ requests = [t \in TurnIds |-> NoRequest]
  /\ running = 0
  /\ PromptIdle
  /\ IncidentsIdle

\* a client sends POST /chat/sessions/{session_id}/messages; requests are
\* numbered in the order they arrive
Arrive(t) ==
  /\ requests[t].pc = "none"
  /\ \A u \in TurnIds : u < t => requests[u].pc # "none"
  /\ \E session_id \in TurnSessions, message_data \in TurnContents :
       requests' = [requests EXCEPT ![t] =
                      [@ EXCEPT !.pc = "pending", !.session_id = session_id,
                                !.message_data = message_data]]
  /\ UNCHANGED <<running, server, s_vars, m_vars, g_vars, b_vars, i_vars>>

\* the handler from its first statement to the provider call: main.py adds the
\* user message to the transaction (autoflush is off: it is in no query
\* result before the commit), ChatService.send_message commits it; both then
\* load the conversation history
BeginTurn(t) ==
  /\ requests[t].pc = "pending"
  /\ EventLoopIdle
  /\ running' = t
  /\ \E session_id \in {requests[t].session_id},
        user_message \in {StripContent(requests[t].message_data)} :
       \E committed \in {IF server = "main" THEN chat_messages
                         ELSE [chat_messages EXCEPT ![session_id] =
                                 Append(@, MessageRow(session_id, t,
                                                      UserMessage(user_message)))]} :
         /\ chat_messages' = committed
         /\ requests' = [requests EXCEPT ![t] =
                           [@ EXCEPT !.pc = "generating",
                                     !.history =
                                        _get_conversation_history(session_id, committed)]]
  /\ UNCHANGED <<server, started, api_configured, knowledge_base, chat_sessions, last,
                 m_vars, g_vars, b_vars, i_vars>>

\* the handler from the provider's answer to its return: main.py fails on
\* kb_processor._get_missing_fields and rolls back when the message matched
\* and the response asks for clarification, and commits the user and the bot
\* message otherwise; ChatService.send_message commits the bot message
FinishTurn(t) ==
  /\ requests[t].pc = "generating"
  /\ running' = 0
  /\ \E session_id \in {requests[t].session_id},
        user_message \in {StripContent(requests[t].message_data)},
        gen \in TurnOutcomes(api_configured) :
       \E kb_matches \in {find_matching_kb_entries(user_message, knowledge_base,
                                                   DefaultLimit)} :
        \E context \in {[kb_entries |-> kb_matches]} :
         \E ai_response \in TurnResponses(IF server = "main" THEN "main" ELSE "service",
                                          user_message, context, gen) :
          \E failed \in {server = "main" /\ kb_matches # <<>>
                           /\ Get(ai_response, "requires_clarification", FALSE)} :
           /\ chat_messages' =
                IF failed THEN chat_messages
                ELSE IF server = "main"
                THEN [chat_messages EXCEPT ![session_id] =
                        @ \o <<MessageRow(session_id, t, UserMessage(user_message)),
                               MessageRow(session_id, t,
                                          BotMessage(ai_response, kb_matches))>>]
                ELSE [chat_messages EXCEPT ![session_id] =
                        Append(@, MessageRow(session_id, t,
                                             ServiceBotMessage(ai_response)))]
           /\ requests' = [requests EXCEPT ![t] =
                             [@ EXCEPT !.pc = "done", !.gen = gen,
                                       !.kb_matches = kb_matches,
                                       !.ai_response = ai_response,
                                       !.status_code = IF failed THEN 500 ELSE 200]]
  /\ UNCHANGED <<server, started, api_configured, knowledge_base, chat_sessions, last,
                 m_vars, g_vars, b_vars, i_vars>>

NextTurns ==
  \E t \in TurnIds :
    \/ Arrive(t)
    \/ BeginTurn(t)
    \/ FinishTurn(t)

SpecTurns == InitTurns /\ [][NextTurns]_vars

(***************************************************************************)
(* create_incident (main.py, main_enhanced.py)                             *)
(*                                                                         *)
(* The handlers are `async def` functions without an await, so one call    *)
(* runs from its query to its commit before the next call starts.          *)
(***************************************************************************)
s_INC == <<"I", "N", "C">>

\* datetime.now().strftime("%Y%m%d") on the local dates of the model
DayText(day) == <<"2", "0", "2", "5", "0", "1", "0">> \o str_int(day)

\* f"{n:03d}": at least SeqWidth digits, more when n needs them
format_03d(n) ==
  LET digits == str_int(n)
  IN  IF Len(digits) >= SeqWidth THEN digits
      ELSE [i \in 1..(SeqWidth - Len(digits)) |-> "0"] \o digits

\* int(text) of a text of digits
int(text) ==
  LET Loop[i \in 0..Len(text)] ==
        IF i = 0 THEN 0
        ELSE 10 * Loop[i - 1] + (CHOOSE d \in 0..9 : DigitChars[d + 1] = text[i])
  IN  Loop[Len(text)]

\* text[start:stop] with 0 <= start <= stop
PySlice(text, start, stop) ==
  SubSeq(text, start + 1, IF stop < Len(text) THEN stop ELSE Len(text))

\* the row of an incident: the autoincrement id and incident_id, which has a
\* unique index
IncidentRow(id, incident_id) == [id |-> id, incident_id |-> incident_id]

\* db.query(Incident).filter(Incident.incident_id.like(f"INC{today}%"))
\*   .order_by(Incident.id.desc()).first(), as an index of rows (0: None)
last_incident(rows, day) ==
  LET prefix == s_INC \o DayText(day)
      hits == {i \in DOMAIN rows : StartsAt(rows[i].incident_id, 1, prefix)}
  IN  IF hits = {} THEN 0
      ELSE CHOOSE i \in hits : \A j \in hits : rows[j].id <= rows[i].id

\* the incident_id the handler generates
new_incident_id(rows, day) ==
  LET last_index == last_incident(rows, day)
      new_num == IF last_index # 0
                 THEN int(PySlice(rows[last_index].incident_id, SeqStart, SeqStop)) + 1
                 ELSE 1
  IN  s_INC \o DayText(day) \o format_03d(new_num)

\* the table after n calls on the first date
IncidentsAfter(n) ==
  [i \in 1..n |-> IncidentRow(i, s_INC \o DayText(1) \o format_03d(i))]

\* the tables a run starts from: empty, or filled by 998, 999 or 1000 calls
ExistingIncidents == {IncidentsAfter(n) : n \in {0, 998, 999, 1000}}

InitIncidents ==
  /\ MatchIdle
  /\ GenIdle
  /\ started = FALSE /\ api_configured = FALSE /\ knowledge_base = <<>>
  /\ chat_sessions = <<>> /\ chat_messages = <<>> /\ last = [op |-> "none"]
  /\ server = "none" /\ requests = <<>> /\ running = 0
  /\ PromptIdle
  /\ incidents \in ExistingIncidents
  /\ today = 1
  /\ i_calls = 0
  /\ i_last = [op |-> "none"]

\* db.add(incident); db.commit(): the unique index on incident_id rejects a
\* second row with the same value (IntegrityError), the handler rolls back
\* and answers 500
CreateIncidentFrom(op) ==
  /\ i_calls' = i_calls + 1
  /\ \E incident_id \in {new_incident_id(incidents, today)} :
       IF \E i \in DOMAIN incidents : incidents[i].incident_id = incident_id
       THEN /\ i_last' = [op |-> op, status_code |-> 500, incident_id |-> incident_id,
                          before |-> Len(incidents)]
            /\ UNCHANGED incidents
       ELSE /\ incidents' = Append(incidents, IncidentRow(Len(incidents) + 1, incident_id))
            /\ i_last' = [op |-> op, status_code |-> 200, incident_id |-> incident_id,
                          before |-> Len(incidents)]
  /\ UNCHANGED <<today, m_vars, g_vars, s_vars, r_vars, b_vars>>

\* POST /incidents of main.py
CreateIncident ==
  /\ i_calls < MaxCalls
  /\ CreateIncidentFrom("create_incident/main")

\* POST /incidents/enhanced of main_enhanced.py
CreateEnhancedIncident ==
  /\ i_calls < MaxCalls
  /\ CreateIncidentFrom("create_incident/main_enhanced")

\* midnight passes
NextDay ==
  /\ today < MaxDays
  /\ today' = today + 1
  /\ UNCHANGED <<incidents, i_calls, i_last, m_vars, g_vars, s_vars, r_vars, b_vars>>

NextIncidents ==
  \/ CreateIncident
  \/ CreateEnhancedIncident
  \/ NextDay

SpecIncidents == InitIncidents /\ [][NextIncidents]_vars

(***************************************************************************)
(* Properties of the chat turn (checked under Spec)                        *)
(***************************************************************************)
SendOps ==
  {"send_chat_message/main", "send_enhanced_chat_message/main_enhanced",
   "send_chat_message/main_enhanced_fixed", "send_chat_message/main_simple"}

\* the last request was a turn on an existing session with a non-empty message
TurnOnExistingSession ==
  /\ last.op \in SendOps
  /\ last.existed
  /\ StripContent(last.message_data) # <<>>

\* ... for which the matcher returned an entry and the response asks for
\* clarification
TurnMatchedAndClarifies ==
  /\ TurnOnExistingSession
  /\ last.kb_matches # <<>>
  /\ Get(last.ai_response, "requires_clarification", FALSE)

RequiredFieldNames(kb_entry) ==
  [i \in DOMAIN kb_entry.required_info |-> kb_entry.required_info[i].field]

\* C1: every turn on an existing session with a non-empty message is answered
\* with a structured response, never with an error, whatever the generator
\* does.
C1_EveryTurnAnswered ==
  TurnOnExistingSession =>
     /\ last.status_code = 200
     /\ last.success
     /\ "response" \in DOMAIN last.ai_response

\* C2: a turn on a session at "initial" whose message the matcher matches and
\* whose response asks for clarification leaves the session persisted at
\* "collecting_info", with the message under "initial_issue" in collected_data
\* and missing_info the required-field names of the top match.
C2_InitialToCollectingInfo ==
  (TurnMatchedAndClarifies /\ last.before.current_step = "initial") =>
     LET session == chat_sessions[last.session_id]
     IN  /\ session.current_step = "collecting_info"
         /\ DOMAIN session.collected_data = {"initial_issue"}
         /\ session.collected_data["initial_issue"]
              \in {last.message_data, StripContent(last.message_data)}
         /\ session.missing_info = <<RequiredFieldNames(last.kb_matches[1])>>

\* C5: after a turn that computes missing_info, the session's missing_info is
\* the required-field names of the matched entry without the keys present in
\* collected_data.
C5_MissingFieldsIsDifference ==
  TurnMatchedAndClarifies =>
     LET session == chat_sessions[last.session_id]
         names == RequiredFieldNames(last.kb_matches[1])
         IsMissing(name) == name \notin DOMAIN session.collected_data
     IN  session.missing_info = <<SelectSeq(names, IsMissing)>>

\* C20: a turn with a non-empty message sent to a session id that does not
\* exist is answered with the not-found status 404, which no other failure
\* of a turn has (400 for an empty message, 500 for a failed turn), and it
\* leaves the sessions and the transcripts as they were.
C20_NotFoundIsDistinguishable ==
  [][(/\ last'.op \in SendOps
      /\ ~last'.existed
      /\ StripContent(last'.message_data) # <<>>) =>
       /\ last'.status_code = 404
       /\ ~last'.success
       /\ UNCHANGED <<chat_sessions, chat_messages>>]_vars

\* C26: a turn for which the matcher returned no entry or whose response
\* does not ask for clarification leaves current_step, collected_data and
\* missing_info of every session as they were; no turn creates or removes a
\* session, and the only value a turn may give current_step is
\* "collecting_info".
C26_SessionFrame ==
  [][(last'.op \in SendOps) =>
       /\ DOMAIN chat_sessions' = DOMAIN chat_sessions
       /\ \A s \in DOMAIN chat_sessions :
            chat_sessions'[s].current_step
              \in {chat_sessions[s].current_step, "collecting_info"}
       /\ (\/ last'.kb_matches = <<>>
           \/ ~Get(last'.ai_response, "requires_clarification", FALSE)) =>
            \A s \in DOMAIN chat_sessions :
              /\ chat_sessions'[s].current_step = chat_sessions[s].current_step
              /\ chat_sessions'[s].collected_data = chat_sessions[s].collected_data
              /\ chat_sessions'[s].missing_info = chat_sessions[s].missing_info]_vars

\* a stored turn of main.py or main_enhanced.py with a matched entry and a
\* response that does not ask for clarification
C26_Witness ==
  /\ last.op \in {"send_chat_message/main", "send_enhanced_chat_message/main_enhanced"}
  /\ last.status_code = 200
  /\ last.kb_matches # <<>>
  /\ ~Get(last.ai_response, "requires_clarification", FALSE)
  /\ chat_sessions[last.session_id] = last.before
  /\ Len(chat_messages[last.session_id]) = 3

\* C27: initialize_knowledge_base changes the catalog only when it is empty,
\* and then to the default entries; running it again on its own result
\* changes nothing; no chat turn and no session creation changes the catalog.
C27_CatalogInitializedOnce ==
  [][/\ knowledge_base' # knowledge_base =>
          /\ knowledge_base = <<>>
          /\ knowledge_base' = initial_kb_data
          /\ UNCHANGED <<chat_sessions, chat_messages>>
     /\ \E once \in {initialize_knowledge_base(knowledge_base)} :
          initialize_knowledge_base(once) = once
     /\ last'.op # "none" => knowledge_base' = knowledge_base]_vars

\* a started server whose catalog was not empty at startup and still is what
\* it was, after a turn
C27_Witness ==
  /\ started
  /\ knowledge_base = <<PromptKbPool[3]>>
  /\ last.op \in SendOps
  /\ last.existed

RollbackOps == {"send_chat_message/main", "send_enhanced_chat_message/main_enhanced"}

Alternating(transcript) ==
  transcript # <<>> =>
    /\ transcript[1].message_type = "bot"
    /\ Len(transcript) % 2 = 1
    /\ \A i \in 2..Len(transcript) :
         transcript[i].message_type = (IF i % 2 = 0 THEN "user" ELSE "bot")

\* C29: after every call of ChatService.send_message the transcript of a
\* session is the welcome message followed by user and assistant messages
\* strictly alternating, each user message followed by one assistant
\* message; a call that returns success = false adds no message.
C29_TranscriptAlternates ==
  [][(last'.op = "send_chat_message/main_enhanced_fixed") =>
       /\ \A s \in SessionIds : Alternating(chat_messages'[s])
       /\ ~last'.success => chat_messages' = chat_messages]_vars

(***************************************************************************)
(* Properties of concurrent turns (checked under SpecTurns)                *)
(***************************************************************************)
\* the step is a step of the handler of request t
HandlerStep(t) ==
  /\ requests[t].pc \in {"pending", "generating"}
  /\ requests'[t] # requests[t]

\* the rows request t has inserted in the transcript of a session
RowsOf(t, rows) == SelectSeq(rows, LAMBDA row : row.request = t)

\* C18: every step of a turn on session A, whatever requests are waiting or
\* were served before, leaves the state and the transcript of every other
\* session unchanged; the history it loads is made of rows of A only; and
\* its outcome is that of the turn alone: the response is one the generator
\* gives for the turn's own message and matches, and the transcript of A is
\* extended by exactly the turn's own rows (user message and bot message, or
\* nothing when the turn fails and rolls back).
C18_SessionsIndependent ==
  [][\A t \in TurnIds : HandlerStep(t) =>
       \E a \in {requests[t].session_id}, r \in {requests'[t]} :
        \E user_message \in {StripContent(r.message_data)},
           others \in {SelectSeq(chat_messages'[a], LAMBDA row : row.request # t)},
           added \in {RowsOf(t, chat_messages'[a])} :
           /\ \A b \in TurnSessions \ {a} :
                /\ chat_sessions'[b] = chat_sessions[b]
                /\ chat_messages'[b] = chat_messages[b]
           /\ chat_sessions'[a] = chat_sessions[a]
           /\ \A i \in DOMAIN r.history : r.history[i].session_id = a
           /\ chat_messages'[a] = others \o added
           /\ others = SelectSeq(chat_messages[a], LAMBDA row : row.request # t)
           /\ r.pc = "done" =>
                \E kb_matches \in {find_matching_kb_entries(user_message, knowledge_base,
                                                            DefaultLimit)} :
                 \E context \in {[kb_entries |-> kb_matches]} :
                   /\ r.kb_matches = kb_matches
                   /\ r.ai_response \in
                        TurnResponses(IF server = "main" THEN "main" ELSE "service",
                                      user_message, context, r.gen)
                   /\ [i \in DOMAIN added |-> added[i].message.message_type] =
                        IF r.status_code = 200 THEN <<"user", "bot">> ELSE <<>>
                   /\ r.status_code = 200 =>
                        /\ added[1].message.content = user_message
                        /\ added[2].message.content = r.ai_response.response]_vars

\* both sessions have a completed turn, served one after the other
C18_Witness ==
  /\ \E t, u \in TurnIds :
       /\ requests[t].pc = "done" /\ requests[t].session_id = 1
       /\ requests[u].pc = "done" /\ requests[u].session_id = 2
       /\ requests[t].status_code = 200
       /\ Len(RowsOf(t, chat_messages[1])) = 2
       /\ RowsOf(t, chat_messages[2]) = <<>>

GenDone == g_handler \in {"legacy", "enhanced", "simple"}

ResponseFields ==
  {"response", "type", "confidence", "suggested_actions", "requires_clarification",
   "next_steps", "estimated_resolution_time", "sentiment"}

LegacyFields ==
  {"response", "type", "confidence", "suggested_actions", "requires_clarification",
   "next_steps"}

\* the mock response of the handler that produced g_response
MockOf(handler, prompt) ==
  IF handler = "legacy" THEN _generate_mock_response(prompt)
  ELSE _generate_enhanced_mock_response(prompt)

FallbackOf(handler, prompt) ==
  IF handler = "legacy" THEN _generate_fallback_response(prompt)
  ELSE _generate_enhanced_fallback_response(prompt)

C4_ClarificationCapsConfidence ==
  (GenDone /\ Get(g_response, "requires_clarification", FALSE)) =>
     FLe(g_response.confidence, F_0_7)

\* C4: every response of the enhanced normalizer and every failure fallback
\* response with requires_clarification true has confidence at most 0.7 (the
\* normalizer gives exactly 0.7, the fallbacks 0.5); the mock responses and
\* the legacy normalizer are not bound by it.
C4_NormalizerAndFallbackCap ==
  (/\ GenDone
   /\ \/ g_path = "fallback"
      \/ g_path = "normalizer" /\ g_handler = "enhanced"
   /\ g_response.requires_clarification) =>
     /\ FLe(g_response.confidence, F_0_7)
     /\ g_path = "normalizer" => g_response.confidence = F_0_7
     /\ g_path = "fallback" => g_response.confidence = F_0_5

C4_Witness ==
  /\ g_handler = "enhanced"
  /\ g_path = "normalizer"
  /\ g_gen = Returns(t_which)
  /\ g_response.requires_clarification
  /\ g_response.confidence = F_0_7

\* C6 as stated: the normalizer returns all eight fields for any input string.
C6_AllFieldsAlways ==
  (GenDone /\ g_path = "normalizer") => DOMAIN g_response = ResponseFields

\* C6: _parse_enhanced_ai_response returns a response with all eight fields,
\* each within its range, for any input string, the empty string included, and
\* its failure branch is the fixed safe default; the legacy _parse_ai_response
\* returns for any input string too, but with six fields only (no
\* estimated_resolution_time, no sentiment), or with the JSON object embedded
\* in the text.
C6_NormalizerTotal ==
  (GenDone /\ g_path = "normalizer") =>
     /\ g_handler = "enhanced" =>
          /\ DOMAIN g_response = ResponseFields
          /\ g_response.type \in {"information", "clarification", "instructions", "escalation"}
          /\ FLe(F_0_0, g_response.confidence) /\ FLe(g_response.confidence, F_0_95)
          /\ g_response.requires_clarification \in BOOLEAN
          /\ Len(g_response.suggested_actions) <= 4
          /\ Len(g_response.next_steps) \in 1..4
          /\ g_response.estimated_resolution_time \in {5, 15, 30, 45, 120}
          /\ g_response.sentiment \in {"positive", "neutral", "negative"}
          /\ g_response.response = join_lines(CleanedLines(g_gen.text))
          /\ LET d == EnhancedSafeDefault(g_gen.text)
             IN  /\ DOMAIN d = ResponseFields
                 /\ d.type = "information" /\ d.confidence = F_0_7
                 /\ ~d.requires_clarification
                 /\ d.estimated_resolution_time = 30 /\ d.sentiment = "neutral"
     /\ g_handler = "legacy" =>
          \/ DOMAIN g_response = LegacyFields
          \/ /\ JsonDecodes(JsonCandidate(g_gen.text))
             /\ g_response = json_loads(JsonCandidate(g_gen.text))

C6_Witness ==
  /\ g_handler = "enhanced"
  /\ g_path = "normalizer"
  /\ g_gen = Returns(t_empty)
  /\ DOMAIN g_response = ResponseFields
  /\ g_response.response = <<>>

\* the scenario of the specification: the enhanced normalizer applied to the
\* provider text "Please restart your router.\n1. Unplug it.\n2. Wait 10 seconds."
s_Unplug_it == <<"U","n","p","l","u","g"," ","i","t",".">>
s_Wait_10_seconds == <<"W","a","i","t"," ","1","0"," ","s","e","c","o","n","d","s",".">>
s_Restart_Router == <<"R","e","s","t","a","r","t"," ","R","o","u","t","e","r">>
s_Router == <<"R","o","u","t","e","r">>

RouterScenario ==
  /\ g_handler = "enhanced"
  /\ g_path = "normalizer"
  /\ g_gen = Returns(t_router)

\* C13 as stated: normalizing the router text yields next_steps equal to
\* ["Unplug it.", "Wait 10 seconds."].
C13_BothStepsKept ==
  RouterScenario => g_response.next_steps = <<s_Unplug_it, s_Wait_10_seconds>>

\* C13: normalizing the router text yields next_steps equal to
\* ["Wait 10 seconds."]: both numbered lines are recognised and cleaned, but
\* "Unplug it." has exactly 10 characters and a step is kept only when it is
\* longer than 10.
C13_OnlyLongerStepKept ==
  RouterScenario =>
    /\ g_response.next_steps = <<s_Wait_10_seconds>>
    /\ LET lines == split_lines(g_gen.text)
       IN  /\ Len(lines) = 3
           /\ ~IsNumbered(strip(lines[1]))
           /\ IsNumbered(strip(lines[2])) /\ clean_step(strip(lines[2])) = s_Unplug_it
           /\ IsNumbered(strip(lines[3])) /\ clean_step(strip(lines[3])) = s_Wait_10_seconds
           /\ Len(s_Unplug_it) = 10
           /\ Len(s_Wait_10_seconds) > 10

C13_Witness ==
  /\ RouterScenario
  /\ Len(g_response.next_steps) = 1
  /\ g_response.next_steps[1] = s_Wait_10_seconds

\* C14: normalizing the router text yields a suggested_actions list that
\* contains "Restart Router".
C14_ContainsRestartRouter ==
  RouterScenario =>
    \E i \in DOMAIN g_response.suggested_actions :
      g_response.suggested_actions[i] = s_Restart_Router

\* C15: with no generator configured, the message "VPN keeps dropping" gets the
\* fixed response of the vpn bucket of the handler's mock: type "clarification",
\* requires_clarification true, a non-empty suggested_actions list; the
\* response is the mock's own record and not a result of the normalizer.
C15_VpnMock ==
  (GenDone /\ g_path = "mock" /\ g_prompt = p_vpn) =>
    /\ g_response.type = "clarification"
    /\ g_response.requires_clarification = TRUE
    /\ g_response.suggested_actions # <<>>
    /\ g_response.response = MockText(g_handler, "vpn")
    /\ g_handler = "enhanced" =>
         /\ g_gen = NotConfigured
         /\ g_response.suggested_actions = enh_mock_vpn_actions
         /\ g_response.confidence = F_0_88
         /\ \A t \in RawTexts : g_response \notin EnhancedParses[t]
    /\ g_handler = "legacy" =>
         /\ g_gen = NotConfigured
         /\ g_response.suggested_actions = leg_mock_vpn_actions
    /\ g_handler = "simple" => g_response.suggested_actions = simple_vpn_actions

C15_Witness ==
  /\ g_handler = "enhanced"
  /\ g_path = "mock"
  /\ g_prompt = p_vpn
  /\ g_gen = NotConfigured
  /\ g_response.type = "clarification"
  /\ Len(g_response.suggested_actions) = 3

\* the keyword lists of the mock's buckets, in the order they are tested
MockBucketKeys(handler) ==
  IF handler = "simple"
  THEN << <<"outlook", {s_outlook, s_email}>>, <<"vpn", {s_vpn}>>,
          <<"password", {s_password}>>, <<"slow", {s_slow, s_performance}>> >>
  ELSE << <<"outlook", {s_outlook}>>, <<"vpn", {s_vpn}>>, <<"password", {s_password}>> >>

\* the first bucket one of whose keywords occurs in the lower-cased message
MockBucket(handler, message) ==
  LET keys == MockBucketKeys(handler)
      hits == {i \in DOMAIN keys : \E k \in keys[i][2] : Contains(lower(message), k)}
  IN  IF hits = {} THEN "other" ELSE keys[SetMin(hits)][1]

\* a message that falls in the bucket
BucketExample(bucket) ==
  CASE bucket = "outlook" -> p_outlook
    [] bucket = "vpn" -> p_vpn
    [] bucket = "password" -> p_password
    [] bucket = "slow" -> s_slow
    [] bucket = "other" -> p_hi

\* the mock of the handler that produced g_response
HandlerMock(handler, prompt) ==
  CASE handler = "legacy" -> _generate_mock_response(prompt)
    [] handler = "enhanced" -> _generate_enhanced_mock_response(prompt)
    [] handler = "simple" -> simple_generate_enhanced_response(prompt)

\* C16 as stated: the mock has exactly four buckets tested in the order
\* "outlook" or "email", "vpn", "password", catch-all, so that a message
\* with "email" and without "outlook" gets the outlook/email response.
C16_FourBucketsWithEmail ==
  (GenDone /\ g_path = "mock") =>
    LET message == lower(g_prompt)
        bucket ==
          IF Contains(message, s_outlook) \/ Contains(message, s_email) THEN "outlook"
          ELSE IF Contains(message, s_vpn) THEN "vpn"
          ELSE IF Contains(message, s_password) THEN "password"
          ELSE "other"
    IN  g_response.response = MockText(g_handler, bucket)

\* C16: the mock answers with the fixed response of the first bucket, in the
\* order tested, one of whose keywords occurs in the lower-cased message: in
\* EnhancedLLMHandler and LLMHandler "outlook", "vpn", "password", catch-all,
\* so that "email" is no keyword and a message with "email" and without
\* "outlook" is classified by the remaining buckets; in SimpleLLMHandler
\* "outlook" or "email", "vpn", "password", "slow" or "performance",
\* catch-all. The response is the same for every message of a bucket.
C16_MockBuckets ==
  (GenDone /\ g_path = "mock") =>
    LET bucket == MockBucket(g_handler, g_prompt)
    IN  /\ g_response.response = MockText(g_handler, bucket)
        /\ g_response = HandlerMock(g_handler, BucketExample(bucket))
        /\ g_handler \in {"legacy", "enhanced"} =>
             /\ bucket \in {"outlook", "vpn", "password", "other"}
             /\ (bucket = "outlook") = Contains(lower(g_prompt), s_outlook)
        /\ g_handler = "simple" =>
             (bucket = "outlook") =
               (Contains(lower(g_prompt), s_outlook) \/ Contains(lower(g_prompt), s_email))

C16_Witness ==
  /\ g_handler = "enhanced"
  /\ g_path = "mock"
  /\ g_prompt = p_email_slow
  /\ g_response = _generate_enhanced_mock_response(p_hi)

\* the tiers of the rule-based assessment in their priority order, each with
\* its word list
SentimentTiers ==
  << <<"frustrated", frustrated_words>>, <<"urgent", urgent_words>>,
     <<"negative", adv_negative_words>>, <<"positive", adv_positive_words>> >>

\* the tiers that have a word in the text
TiersPresent(text) ==
  {i \in DOMAIN SentimentTiers : AnyIn(SentimentTiers[i][2], lower(text))}

\* the constants of a tier: sentiment_score, urgency_level, urgency_score,
\* number of key_emotions, requires_immediate_attention, recommended_priority
TierConstants(tier) ==
  CASE tier = "frustrated" -> <<F_0_8, "high", F_0_8, 3, TRUE, "high">>
    [] tier = "urgent" -> <<F_0_9, "critical", F_0_95, 3, TRUE, "critical">>
    [] tier = "negative" -> <<F_0_7, "medium", F_0_6, 3, FALSE, "medium">>
    [] tier = "positive" -> <<F_0_8, "low", F_0_3, 3, FALSE, "medium">>
    [] tier = "neutral" -> <<F_0_5, "low", F_0_3, 0, FALSE, "medium">>

SentimentFields ==
  {"sentiment", "sentiment_score", "urgency_level", "urgency_score", "key_emotions",
   "requires_immediate_attention", "recommended_priority"}

\* C17: the rule-based assessment of a message is the tier of highest priority
\* (frustrated, urgent, negative, positive) that has a word in the lower-cased
\* message, neutral when none has; its seven fields are the constants of that
\* tier, and requires_immediate_attention is true exactly for frustrated and
\* urgent.
C17_SentimentTierPriority ==
  (g_handler = "sentiment" /\ g_path = "mock") =>
    LET present == TiersPresent(g_prompt)
        tier == IF present = {} THEN "neutral" ELSE SentimentTiers[SetMin(present)][1]
        r == g_response
    IN  /\ DOMAIN r = SentimentFields
        /\ r.sentiment = tier
        /\ <<r.sentiment_score, r.urgency_level, r.urgency_score, Len(r.key_emotions),
             r.requires_immediate_attention, r.recommended_priority>> = TierConstants(tier)
        /\ r.requires_immediate_attention = (tier \in {"frustrated", "urgent"})
        /\ r = _mock_advanced_sentiment_analysis(
                 CASE tier = "frustrated" -> p_still_broken
                   [] tier = "urgent" -> p_urgent_problem
                   [] tier = "negative" -> p_thanks_error
                   [] tier = "positive" -> p_thanks_great
                   [] tier = "neutral" -> p_hi)

\* a message with words of the negative and of the positive tier is negative
C17_Witness ==
  /\ g_handler = "sentiment"
  /\ g_path = "mock"
  /\ g_prompt = p_thanks_error
  /\ Cardinality(TiersPresent(g_prompt)) = 2
  /\ g_response.sentiment = "negative"
  /\ g_response.requires_immediate_attention = FALSE

\* the title-cased captures of at least 3 characters, each at its first
\* occurrence in extraction (line, then pattern) order
DistinctInExtractionOrder(response_text) ==
  LET ex == ExtractedActions(CleanedLines(response_text))
      Loop[i \in 0..Len(ex)] ==
        IF i = 0 THEN <<>>
        ELSE IF Len(ex[i]) > 2 /\ title(ex[i]) \notin Range(Loop[i - 1])
             THEN Append(Loop[i - 1], title(ex[i]))
             ELSE Loop[i - 1]
  IN  Loop[Len(ex)]

NormalizedByEnhanced == g_handler = "enhanced" /\ g_path = "normalizer"

\* C23: the suggested_actions the normalizer extracts have no duplicates, are
\* at most 4, each title-cased and at least 3 characters long, and when more
\* than 4 distinct actions were extracted the 4 kept are the first 4 in
\* extraction (line, then pattern) order.
C23_FirstFourInExtractionOrder ==
  (NormalizedByEnhanced /\ ActionSet(g_gen.text) # {}) =>
    \E acts \in {g_response.suggested_actions},
       ordered \in {DistinctInExtractionOrder(g_gen.text)} :
      /\ Len(acts) <= 4
      /\ \A i, j \in DOMAIN acts : i # j => acts[i] # acts[j]
      /\ \A i \in DOMAIN acts : Len(acts[i]) >= 3 /\ acts[i] = title(acts[i])
      /\ Len(ordered) > 4 => Range(acts) = Range(Slice(ordered, 4))

\* the confidence the claim gives for a raw text
ConfidenceRule(text) ==
  LET kept == CleanedLines(text)
  IN  IF RequiresClarification(kept) THEN F_0_7
      ELSE IF Len(kept) < 2 THEN F_0_6
      ELSE IF Cardinality({i \in DOMAIN kept : Len(kept[i]) > 20}) < 2 THEN F_0_75
      ELSE F_0_9

NormalizerConfidence ==
  NormalizedByEnhanced =>
    \E c \in {g_response.confidence} :
      /\ c = ConfidenceRule(g_gen.text)
      /\ c = (IF g_response.requires_clarification THEN F_0_7 ELSE c)
      /\ FLe(c, F_0_95)

\* the legacy normalizer returned the JSON object found in the provider's text
LegacyJsonPassedThrough ==
  /\ g_handler = "legacy"
  /\ g_path = "normalizer"
  /\ JsonCandidate(g_gen.text) # <<>>
  /\ JsonDecodes(JsonCandidate(g_gen.text))

\* C24 as stated: the normalizer's confidence is 0.7 when clarification is
\* required, else 0.6 with fewer than 2 non-empty lines, else 0.75 with fewer
\* than 2 lines longer than 20 characters, else 0.9; it is never above 0.95
\* and no response produced for a user turn has confidence 1.0.
C24_NoTurnResponseAtFullConfidence ==
  /\ NormalizerConfidence
  /\ GenDone => g_response.confidence # F_1_0

\* C24: the same rule for the normalizer of EnhancedLLMHandler; no response
\* of a handler has confidence 1.0 except a JSON object that the legacy
\* LLMHandler found in the provider's text and returned as it is.
C24_ConfidenceRule ==
  /\ NormalizerConfidence
  /\ (GenDone /\ ~LegacyJsonPassedThrough) => g_response.confidence # F_1_0

\* a normalized text of several long lines and no question: confidence 0.9
C24_Witness ==
  /\ NormalizedByEnhanced
  /\ ~g_response.requires_clarification
  /\ Len(CleanedLines(g_gen.text)) >= 2
  /\ g_response.confidence = F_0_9

\* a line with its leading numbered, bulleted or "step N" prefix removed and
\* the rest unchanged
WithoutLeadingPrefix(line) == SubSeq(line, PrefixMatchEnd(line) + 1, Len(line))

StepsWithoutLeadingPrefix(text) ==
  LET lines == split_lines(text)
      stripped == [i \in DOMAIN lines |-> strip(lines[i])]
      prefixed == SelectSeq(stripped, LAMBDA l : IsNumbered(l) \/ IsBulleted(l) \/ IsStepN(l))
      rests == [i \in DOMAIN prefixed |-> WithoutLeadingPrefix(prefixed[i])]
      kept == SelectSeq(rests, LAMBDA r : Len(r) > 10)
  IN  IF kept # <<>> THEN SubSeq(kept, 1, IF Len(kept) < 4 THEN Len(kept) ELSE 4)
      ELSE generic_next_steps

\* C25: next_steps holds, for the first 4 lines in text order that start with
\* a numbered, bulleted or "step N" prefix and whose remainder is longer than
\* 10 characters, the line with only that leading prefix removed; with no
\* such line it is the two generic steps.
C25_OnlyLeadingPrefixRemoved ==
  NormalizedByEnhanced => g_response.next_steps = StepsWithoutLeadingPrefix(g_gen.text)

(***************************************************************************)
(* Properties of the matcher (checked under SpecMatch)                     *)
(***************************************************************************)
MatchDone == m_pc = "done"
ResultIds == {m_result[i].kb_id : i \in DOMAIN m_result}
CatalogIndex(id) == CHOOSE i \in DOMAIN m_catalog : m_catalog[i].kb_id = id
ActiveRows == {m_catalog[i] : i \in {j \in DOMAIN m_catalog : m_catalog[j].is_active}}
PassingRows == {e \in ActiveRows : FLt(F_0_1, _calculate_match_score(m_query, e))}

\* C7: for every query and every catalog entry the computed match score
\* lies in [0, 1], both for the rows of the catalog and for the scores the
\* matcher returns.
C7_ScoreBounds ==
  /\ \A i \in DOMAIN m_catalog :
       LET sc == _calculate_match_score(m_query, m_catalog[i])
       IN  FLe(F_0_0, sc) /\ FLe(sc, F_1_0)
  /\ MatchDone =>
       \A i \in DOMAIN m_result :
         FLe(F_0_0, m_result[i].match_score) /\ FLe(m_result[i].match_score, F_1_0)

\* a query that hits title, symptom and tag of a returned row (0.4+0.3+0.2)
\* next to a row that scores 0
C7_Witness ==
  /\ MatchDone
  /\ \E i \in DOMAIN m_result : m_result[i].match_score = FAdd(FAdd(F_0_4, F_0_3), F_0_2)
  /\ \E i \in DOMAIN m_catalog : _calculate_match_score(m_query, m_catalog[i]) = F_0_0

\* C8: the matcher's result is ordered by score descending and two returned
\* entries of equal score appear in catalog insertion order.
C8_StableDescending ==
  MatchDone =>
    \A i, j \in DOMAIN m_result :
      i < j =>
        /\ FLe(m_result[j].match_score, m_result[i].match_score)
        /\ m_result[i].match_score = m_result[j].match_score
             => CatalogIndex(m_result[i].kb_id) < CatalogIndex(m_result[j].kb_id)

\* a result holding a tie and a strict descent
C8_Witness ==
  /\ MatchDone
  /\ \E i, j \in DOMAIN m_result :
       i < j /\ m_result[i].match_score = m_result[j].match_score
  /\ \E i, j \in DOMAIN m_result :
       i < j /\ FLt(m_result[j].match_score, m_result[i].match_score)

\* C9: every returned entry has score strictly greater than 0.1 and every
\* active catalog entry whose score is at most 0.1 is absent from the result.
C9_Threshold ==
  MatchDone =>
    /\ \A i \in DOMAIN m_result : FLt(F_0_1, m_result[i].match_score)
    /\ \A e \in ActiveRows :
         FLe(_calculate_match_score(m_query, e), F_0_1) => e.kb_id \notin ResultIds

\* a call that returned an entry and left out an active row scoring 0
C9_Witness ==
  /\ MatchDone
  /\ m_limit > Len(m_result)
  /\ m_result # <<>>
  /\ \E e \in ActiveRows : _calculate_match_score(m_query, e) = F_0_0

\* C10: the matcher returns at most topK entries, and they are the topK
\* highest-ranked of the entries that passed the threshold.
C10_Truncation ==
  MatchDone =>
    /\ Len(m_result) <= m_limit
    /\ Len(m_result) = IF Cardinality(PassingRows) < m_limit
                       THEN Cardinality(PassingRows) ELSE m_limit
    /\ ResultIds \subseteq {e.kb_id : e \in PassingRows}
    /\ Cardinality(ResultIds) = Len(m_result)
    /\ \A e \in PassingRows :
         e.kb_id \notin ResultIds =>
           \A i \in DOMAIN m_result :
             FLe(_calculate_match_score(m_query, e), m_result[i].match_score)

\* more rows passed the threshold than topK allows
C10_Witness ==
  /\ MatchDone
  /\ m_limit > 0
  /\ Cardinality(PassingRows) > m_limit
  /\ Len(m_result) = m_limit

\* the scenario of the specification: the query "my outlook is not opening"
\* against the two-entry default catalog
OutlookScenario ==
  /\ MatchDone
  /\ m_query = q_my_outlook
  /\ m_catalog = initial_kb_data

\* C11 as stated: in the scenario the score computed for KB001 is at least 0.4.
C11_ScoreAtLeastTitleWeight ==
  OutlookScenario => FLe(F_0_4, _calculate_match_score(m_query, m_catalog[1]))

\* C11: in the scenario the score computed for KB001 is exactly 0.2: neither
\* the title "outlook not opening" nor a symptom is a substring of the query
\* ("outlook is not opening"), only the tag "outlook" is; 0.2 is above the
\* threshold 0.1, and it is the score the matcher returns with KB001.
C11_ScoreIsTagWeight ==
  OutlookScenario =>
    /\ _calculate_match_score(m_query, m_catalog[1]) = F_0_2
    /\ ~Contains(lower(m_query), lower(m_catalog[1].use_case))
    /\ \A i \in DOMAIN m_catalog[1].common_symptoms :
         ~Contains(lower(m_query), lower(m_catalog[1].common_symptoms[i]))
    /\ Contains(lower(m_query), lower(m_catalog[1].tags[1]))
    /\ FLt(F_0_1, F_0_2)
    /\ \A i \in DOMAIN m_result :
         m_result[i].kb_id = "KB001" => m_result[i].match_score = F_0_2

C11_Witness ==
  /\ OutlookScenario
  /\ m_limit = DefaultLimit
  /\ m_result # <<>>
  /\ m_result[1].kb_id = "KB001"
  /\ m_result[1].match_score = F_0_2

\* C12: in the scenario, for every topK of at least 1 (the default is 3), KB002
\* scores 0 and is excluded, and the matcher returns exactly the one-element
\* sequence [KB001].
C12_ExactlyKB001 ==
  (OutlookScenario /\ m_limit >= 1) =>
    /\ _calculate_match_score(m_query, m_catalog[2]) = F_0_0
    /\ [i \in DOMAIN m_result |-> m_result[i].kb_id] = <<"KB001">>

C12_Witness ==
  /\ OutlookScenario
  /\ m_limit = DefaultLimit
  /\ Len(m_result) = 1
  /\ m_result[1].kb_id = "KB001"
  /\ m_catalog[2].kb_id = "KB002"


\* the doubles next to 0.6 and 0.9 that the sums 0.4 + 0.2 and 0.4 + 0.3 + 0.2
\* round to: 0.6000000000000001 and 0.8999999999999999
F_0_6_up == <<161061273, 161061280>>
F_0_9_down == <<241591910, 107374176>>

TitleHit(e) == Contains(lower(m_query), lower(e.use_case))
SymptomHits(e) ==
  {i \in DOMAIN e.common_symptoms : Contains(lower(m_query), lower(e.common_symptoms[i]))}
TagHits(e) == {i \in DOMAIN e.tags : Contains(lower(m_query), lower(e.tags[i]))}

CatalogRows == {m_catalog[i] : i \in DOMAIN m_catalog}

\* C22 as stated: the score is 0.4 for a title hit plus 0.3 for one or more
\* symptom hits plus 0.2 for one or more tag hits, and is always one of
\* 0, 0.2, 0.3, 0.4, 0.5, 0.6, 0.7, 0.9.
C22_ScoreInDecimalSet ==
  \A e \in CatalogRows :
    _calculate_match_score(m_query, e)
      \in {F_0_0, F_0_2, F_0_3, F_0_4, F_0_5, F_0_6, F_0_7, F_0_9}

\* C22: the score is determined by which of the three parts hit, each part
\* counted once however many of its keywords occur in the lower-cased query;
\* the eight values are the double-precision sums, of which title + tag is
\* 0.6000000000000001 and title + symptom + tag is 0.8999999999999999.
C22_ScoreTable ==
  \A e \in CatalogRows :
    \E t \in {TitleHit(e)}, sy \in {SymptomHits(e) # {}}, g \in {TagHits(e) # {}} :
      _calculate_match_score(m_query, e) =
        IF t THEN (IF sy THEN (IF g THEN F_0_9_down ELSE F_0_7)
                         ELSE (IF g THEN F_0_6_up ELSE F_0_4))
             ELSE (IF sy THEN (IF g THEN F_0_5 ELSE F_0_3)
                         ELSE (IF g THEN F_0_2 ELSE F_0_0))

\* a finished call whose catalog has a row hit by its title, by two symptoms
\* and by a tag, and a row hit by its title and a tag only
C22_Witness ==
  /\ MatchDone
  /\ \E e \in CatalogRows :
       TitleHit(e) /\ Cardinality(SymptomHits(e)) >= 2 /\ TagHits(e) # {}
  /\ \E e \in CatalogRows : TitleHit(e) /\ SymptomHits(e) = {} /\ TagHits(e) # {}

(***************************************************************************)
(* Properties of the prompt builder                                        *)
(***************************************************************************)
PromptDone == b_pc = "done"

\* the positions at which needle occurs in hay
Occ(hay, needle) ==
  {i \in 1..(Len(hay) - Len(needle) + 1) : SubSeq(hay, i, i + Len(needle) - 1) = needle}

PromptInput(key) == IF key \in DOMAIN b_context THEN b_context[key] ELSE <<>>

HistoryLine(msg) ==
  (IF msg.type = "user" THEN s_User ELSE s_Assistant) \o <<":", " ">> \o msg.content \o <<"\n">>

KbItem(i, kb) == <<"\n">> \o str_int(i) \o <<".", " ">> \o kb.use_case \o s_Required

Before(A, B) == \A a \in A, b \in B : a < b

\* C21: the built prompt is the system instruction, then the user profile,
\* the knowledge base (at most the first 3 matches), the conversation history
\* (at most the last 8 messages, oldest first) and the current user message
\* followed by the response marker, in that order; a block whose input is
\* absent or empty does not appear, header included.
C21_PromptBlocks ==
  PromptDone =>
    \E p \in {b_result}, hist \in {PromptInput("conversation_history")},
       kbs \in {PromptInput("kb_entries")}, user \in {PromptInput("user_data")} :
    \E ou \in {Occ(p, h_user_context)}, ok \in {Occ(p, h_knowledge_base)},
       oh \in {Occ(p, h_conversation_history)}, oq \in {Occ(p, h_current_query)},
       oa \in {Occ(p, h_assistant_response)} :
      /\ SubSeq(p, 1, Len(enh_system_prompt)) = enh_system_prompt
      /\ Cardinality(ou) = (IF user # <<>> THEN 1 ELSE 0)
      /\ Cardinality(ok) = (IF kbs # <<>> THEN 1 ELSE 0)
      /\ Cardinality(oh) = (IF hist # <<>> THEN 1 ELSE 0)
      /\ Cardinality(oq) = 1
      /\ Cardinality(oa) = 1
      /\ Before({Len(enh_system_prompt)}, ou \cup ok \cup oh \cup oq)
      /\ Before(ou, ok \cup oh \cup oq)
      /\ Before(ok, oh \cup oq)
      /\ Before(oh, oq)
      /\ Before(oq, oa)
      /\ \A q \in oq, a \in oa :
           /\ SubSeq(p, q + Len(h_current_query), a - 1) = b_prompt
           /\ a + Len(h_assistant_response) - 1 = Len(p)
      /\ \A i \in DOMAIN hist :
           \E oi \in {Occ(p, HistoryLine(hist[i]))} :
             /\ Cardinality(oi) = (IF i > Len(hist) - 8 THEN 1 ELSE 0)
             /\ Before(oh, oi) /\ Before(oi, oq)
             /\ \A j \in DOMAIN hist : j < i => Before(Occ(p, HistoryLine(hist[j])), oi)
      /\ \A i \in DOMAIN kbs :
           \E oi \in {Occ(p, KbItem(i, kbs[i]))} :
             /\ Cardinality(oi) = (IF i <= 3 THEN 1 ELSE 0)
             /\ Before(ok, oi) /\ Before(oi, oh \cup oq)
             /\ \A j \in DOMAIN kbs : j < i => Before(Occ(p, KbItem(j, kbs[j])), oi)
      /\ Occ(p, <<"\n", "4", ".", " ">>) = {}

C21_Witness ==
  /\ PromptDone
  /\ Len(PromptInput("conversation_history")) = 9
  /\ Len(PromptInput("kb_entries")) = 4
  /\ "role" \in DOMAIN PromptInput("user_data")


(***************************************************************************)
(* Properties of create_incident (checked under SpecIncidents)             *)
(***************************************************************************)
\* the sequence number written in an incident_id: the digits after
\* "INC" and the 8 digits of the date
SequenceNumber(incident_id) == int(SubSeq(incident_id, 12, Len(incident_id)))

\* the rows of a date, oldest first
RowsOfDay(rows, day) ==
  SelectSeq(rows, LAMBDA row : SubSeq(row.incident_id, 1, 11) = s_INC \o DayText(day))

\* C30: the incident_id a call of create_incident gives the new incident
\* differs from the incident_id of every existing incident, and its sequence
\* number is one greater than that of the most recently created incident of
\* the same date (1 on a date without incidents), however many incidents the
\* date already has.
C30_FreshConsecutiveIncidentId ==
  [][(i_calls' # i_calls) =>
       \E existing \in {RowsOfDay(incidents, today)} :
         /\ \A i \in DOMAIN incidents : incidents[i].incident_id # i_last'.incident_id
         /\ SequenceNumber(i_last'.incident_id) =
              (IF existing = <<>> THEN 1
               ELSE SequenceNumber(existing[Len(existing)].incident_id) + 1)
         /\ i_last'.status_code = 200
         /\ Len(incidents') = Len(incidents) + 1]_vars

====
